---- MODULE Spec2Model ----
(***************************************************************************)
(* The virtual filesystem store of wizard-workspace                        *)
(* (src/src/stores/filesystemStore.ts).                                    *)
(*                                                                         *)
(* A JavaScript string is a sequence of one-character strings, so that     *)
(* split, join, startsWith, slice and replace are computed as the code     *)
(* computes them.  A node id (a uuid) is a natural number, handed out in   *)
(* increasing order; NULL is the id that names no node.  Timestamps,       *)
(* permissions, owner and group are left out: no modelled operation        *)
(* reads them.  An absent `content` or `children` field is the empty       *)
(* sequence, an absent `isReadOnly` is FALSE.                              *)
(***************************************************************************)
EXTENDS Integers, Sequences, FiniteSets, TLC

VARIABLES filesystem, nextId, last, steps, system, terminal

vars == <<filesystem, nextId, last, steps, system, terminal>>

NULL == 0

(***************************************************************************)
(* Bounds of the model.                                                    *)
(***************************************************************************)
MaxOps == 2
MaxLen == 4
StackDepth == 8

(***************************************************************************)
(* String primitives.                                                      *)
(***************************************************************************)
SLASH == <<"/">>
DOT == <<".">>
DOTDOT == <<".", ".">>
TILDE == <<"~">>
HOME_USER == <<"/", "h", "o", "m", "e", "/", "u", "s", "e", "r">>

StartsWith(s, p) == Len(s) >= Len(p) /\ SubSeq(s, 1, Len(p)) = p

\* s.slice(1)
Slice1(s) == SubSeq(s, 2, Len(s))

RECURSIVE SplitAcc(_, _, _, _)
SplitAcc(s, i, cur, acc) ==
    IF i > Len(s) THEN Append(acc, cur)
    ELSE IF s[i] = "/" THEN SplitAcc(s, i + 1, <<>>, Append(acc, cur))
    ELSE SplitAcc(s, i + 1, Append(cur, s[i]), acc)

\* s.split('/')
Split(s) == SplitAcc(s, 1, <<>>, <<>>)

\* parts.filter(Boolean): the empty string is the only falsy segment
FilterBoolean(parts) == SelectSeq(parts, LAMBDA x : x # <<>>)

RECURSIVE Join(_)
\* parts.join('/')
Join(parts) ==
    IF parts = <<>> THEN <<>>
    ELSE IF Len(parts) = 1 THEN parts[1]
    ELSE parts[1] \o SLASH \o Join(Tail(parts))

\* parts.pop() on a copy: all but the last element, the empty list stays empty
Pop(parts) == IF parts = <<>> THEN <<>> ELSE SubSeq(parts, 1, Len(parts) - 1)

\* s.replace(old, new) with a string pattern: the first occurrence only (no
\* modelled name holds "$", which replace would read as a pattern)
Replace(s, old, new) ==
    LET hits == {i \in 0..(Len(s) - Len(old)) : SubSeq(s, i + 1, i + Len(old)) = old}
    IN  IF hits = {} THEN s
        ELSE LET i == CHOOSE h \in hits : \A g \in hits : h <= g
             IN  SubSeq(s, 1, i) \o new \o SubSeq(s, i + Len(old) + 1, Len(s))

\* parentPath === '/' ? `/${name}` : `${parentPath}/${name}`
JoinPath(parentPath, name) ==
    IF parentPath = SLASH THEN SLASH \o name ELSE parentPath \o SLASH \o name

(***************************************************************************)
(* Path utilities of the store.                                            *)
(***************************************************************************)
RECURSIVE NormalizeAcc(_, _)
\* the for-loop of resolvePath: ".." pops, "." is skipped, the rest is pushed
NormalizeAcc(parts, resolved) ==
    IF parts = <<>> THEN resolved
    ELSE IF Head(parts) = DOTDOT THEN NormalizeAcc(Tail(parts), Pop(resolved))
    ELSE IF Head(parts) # DOT THEN NormalizeAcc(Tail(parts), Append(resolved, Head(parts)))
    ELSE NormalizeAcc(Tail(parts), resolved)

\* '/' + resolved.join('/') || '/'   ('/' + x is never empty, so || never applies)
Normalize(path) == SLASH \o Join(NormalizeAcc(FilterBoolean(Split(path)), <<>>))

\* currentDir?.path || '/'
CurrentPath(fs) ==
    IF fs.currentDirectory \in DOMAIN fs.nodes
       /\ fs.nodes[fs.currentDirectory].path # <<>>
    THEN fs.nodes[fs.currentDirectory].path
    ELSE SLASH

resolvePath(fs, path) ==
    IF path = <<>> \/ path = DOT THEN CurrentPath(fs)
    ELSE IF path = TILDE THEN HOME_USER
    ELSE IF StartsWith(path, <<"~", "/">>) THEN HOME_USER \o Slice1(path)
    ELSE IF StartsWith(path, SLASH) THEN Normalize(path)
    ELSE Normalize(CurrentPath(fs) \o SLASH \o path)

getParentPath(path) == SLASH \o Join(Pop(FilterBoolean(Split(path))))

(***************************************************************************)
(* The seed tree.                                                          *)
(***************************************************************************)
N_system == <<"s", "y", "s", "t", "e", "m">>
N_home == <<"h", "o", "m", "e">>
N_user == <<"u", "s", "e", "r">>
N_workspace == <<"w", "o", "r", "k", "s", "p", "a", "c", "e">>
N_projects == <<"p", "r", "o", "j", "e", "c", "t", "s">>
N_artifacts == <<"a", "r", "t", "i", "f", "a", "c", "t", "s">>
N_notes == <<"n", "o", "t", "e", "s">>
N_downloads == <<"d", "o", "w", "n", "l", "o", "a", "d", "s">>
N_missions == <<"m", "i", "s", "s", "i", "o", "n", "s">>
N_active == <<"a", "c", "t", "i", "v", "e">>
N_data == <<"d", "a", "t", "a">>
N_logs == <<"l", "o", "g", "s">>
N_network == <<"n", "e", "t", "w", "o", "r", "k">>
N_processes == <<"p", "r", "o", "c", "e", "s", "s", "e", "s">>
N_snapshots == <<"s", "n", "a", "p", "s", "h", "o", "t", "s">>
N_README_md == <<"R", "E", "A", "D", "M", "E", ".", "m", "d">>
N_bashrc == <<".", "b", "a", "s", "h", "r", "c">>
N_system_log == <<"s", "y", "s", "t", "e", "m", ".", "l", "o", "g">>

\* The bodies of the three seeded files, cut to their first words (the state
\* updateFileContent leaves when it is given this text).
C_readme == <<"#", " ", "W", "I", "Z", "A", "R", "D", " ", "O", "S">>
C_bashrc == <<"#", " ", "~", "/", ".", "b", "a", "s", "h", "r", "c">>
C_syslog == <<"W", "I", "Z", "A", "R", "D", " ", "O", "S">>

\* the helper createNode of createInitialFilesystem, with the children the
\* later push calls leave in the node
createNode(id, name, type, parentPath, parentId, content, isReadOnly, children) ==
    [id |-> id,
     name |-> name,
     type |-> type,
     path |-> JoinPath(parentPath, name),
     parent |-> parentId,
     size |-> Len(content),
     content |-> content,
     children |-> children,
     isReadOnly |-> isReadOnly]

P_home == SLASH \o N_home
P_missions == SLASH \o N_missions
P_data == SLASH \o N_data
P_logs == P_data \o SLASH \o N_logs

ROOT_ID == 1
SYSTEM_ID == 2
USER_ID == 4
DATA_ID == 12
LOGS_ID == 13
README_ID == 17
SEED_COUNT == 19

\* root is created with name '' under parentPath '' and then root.path = '/'
SeedRoot ==
    [createNode(ROOT_ID, <<>>, "directory", <<>>, NULL, <<>>, FALSE, <<2, 3, 10, 12, 16>>)
        EXCEPT !.path = SLASH]

SeedNodes ==
    LET dir(id, name, pp, pid, kids) ==
            createNode(id, name, "directory", pp, pid, <<>>, FALSE, kids)
        file(id, name, pp, pid, content) ==
            createNode(id, name, "file", pp, pid, content, FALSE, <<>>)
    IN  <<SeedRoot,
          createNode(SYSTEM_ID, N_system, "directory", SLASH, ROOT_ID, <<>>, TRUE, <<>>),
          dir(3, N_home, SLASH, ROOT_ID, <<USER_ID>>),
          dir(USER_ID, N_user, P_home, 3, <<5, 6, 7, 8, 9, README_ID, 18>>),
          dir(5, N_workspace, HOME_USER, USER_ID, <<>>),
          dir(6, N_projects, HOME_USER, USER_ID, <<>>),
          dir(7, N_artifacts, HOME_USER, USER_ID, <<>>),
          dir(8, N_notes, HOME_USER, USER_ID, <<>>),
          dir(9, N_downloads, HOME_USER, USER_ID, <<>>),
          dir(10, N_missions, SLASH, ROOT_ID, <<11>>),
          dir(11, N_active, P_missions, 10, <<>>),
          dir(DATA_ID, N_data, SLASH, ROOT_ID, <<LOGS_ID, 14, 15>>),
          dir(LOGS_ID, N_logs, P_data, DATA_ID, <<19>>),
          dir(14, N_network, P_data, DATA_ID, <<>>),
          dir(15, N_processes, P_data, DATA_ID, <<>>),
          dir(16, N_snapshots, SLASH, ROOT_ID, <<>>),
          file(README_ID, N_README_md, HOME_USER, USER_ID, C_readme),
          file(18, N_bashrc, HOME_USER, USER_ID, C_bashrc),
          file(19, N_system_log, P_logs, LOGS_ID, C_syslog)>>

createInitialFilesystem ==
    [nodes |-> [i \in 1..SEED_COUNT |-> SeedNodes[i]],
     root |-> ROOT_ID,
     currentDirectory |-> USER_ID]

(***************************************************************************)
(* Lookups.                                                                *)
(***************************************************************************)
Min(S) == CHOOSE x \in S : \A y \in S : x <= y

getNodeById(fs, id) == IF id \in DOMAIN fs.nodes THEN id ELSE NULL

\* Object.values(nodes).find(n => n.path === resolvedPath): the keys of the node
\* mapping are uuids, which a JavaScript object keeps in insertion order, and
\* ids are handed out in increasing order, so the first match is the least id.
getNodeByPath(fs, path) ==
    LET resolvedPath == resolvePath(fs, path)
        hits == {id \in DOMAIN fs.nodes : fs.nodes[id].path = resolvedPath}
    IN  IF hits = {} THEN NULL ELSE Min(hits)

\* array.filter(id => id !== x)
Without(seq, x) == SelectSeq(seq, LAMBDA id : id # x)

\* {...nodes, [id]: node}: an existing key is overwritten, a new key is added
Put(nodes, id, node) ==
    [k \in DOMAIN nodes \cup {id} |-> IF k = id THEN node ELSE nodes[k]]

(***************************************************************************)
(* Operations of the store.  Each returns the filesystem it leaves, its    *)
(* result ("ok" for true or a node, "fail" for false or null, "throw" for  *)
(* an exception that escapes) and the ids it worked on.                    *)
(***************************************************************************)
Outcome(fs, res, node, dest) == [fs |-> fs, res |-> res, node |-> node, dest |-> dest]

setCurrentDirectory(fs, path) ==
    LET resolvedPath == resolvePath(fs, path)
        node == getNodeByPath(fs, resolvedPath)
    IN  IF node = NULL \/ fs.nodes[node].type # "directory"
        THEN Outcome(fs, "fail", node, NULL)
        ELSE Outcome([fs EXCEPT !.currentDirectory = node], "ok", node, NULL)

\* createFile and createDirectory differ in the node they build only
createEntry(fs, id, type, name, parentPath, content) ==
    LET parent == getNodeByPath(fs, parentPath)
    IN  IF parent = NULL \/ fs.nodes[parent].type # "directory"
        THEN Outcome(fs, "fail", NULL, parent)
        ELSE LET p == fs.nodes[parent]
                 newPath == JoinPath(p.path, name)
                 newNode == [id |-> id, name |-> name, type |-> type, path |-> newPath,
                             parent |-> parent, size |-> Len(content),
                             content |-> content, children |-> <<>>,
                             isReadOnly |-> FALSE]
             IN  IF getNodeByPath(fs, newPath) # NULL
                 THEN Outcome(fs, "fail", NULL, parent)
                 ELSE Outcome(
                        [fs EXCEPT !.nodes =
                            Put(Put(fs.nodes, id, newNode), parent,
                                [p EXCEPT !.children = Append(p.children, id)])],
                        "ok", id, parent)

createFile(fs, id, name, parentPath, content) ==
    createEntry(fs, id, "file", name, parentPath, content)

createDirectory(fs, id, name, parentPath) ==
    createEntry(fs, id, "directory", name, parentPath, <<>>)

\* a walk that stops at the node itself
collectSelf(fs, nodeId, depth) == [ids |-> <<nodeId>>, thrown |-> FALSE]

RECURSIVE collectDescendants(_, _, _)
\* The recursive walk of deleteNode.  depth is the room left on the call stack:
\* the walk of a children graph with a cycle never returns, the engine then
\* raises RangeError, which no caller catches.
collectDescendants(fs, nodeId, depth) ==
    IF depth = 0 THEN [ids |-> <<>>, thrown |-> TRUE]
    ELSE IF nodeId \notin DOMAIN fs.nodes THEN [ids |-> <<nodeId>>, thrown |-> FALSE]
    ELSE IF fs.nodes[nodeId].type # "directory" THEN [ids |-> <<nodeId>>, thrown |-> FALSE]
    ELSE LET kids == fs.nodes[nodeId].children
             RECURSIVE walk(_, _)
             walk(i, acc) ==
                 IF i > Len(kids) THEN [ids |-> acc, thrown |-> FALSE]
                 ELSE LET r == collectDescendants(fs, kids[i], depth - 1)
                      IN  IF r.thrown THEN r ELSE walk(i + 1, acc \o r.ids)
         IN  walk(1, <<nodeId>>)

Range(seq) == {seq[i] : i \in DOMAIN seq}

deleteNode(fs, path) ==
    LET node == getNodeByPath(fs, path)
    IN  IF node = NULL THEN Outcome(fs, "fail", NULL, NULL)
        ELSE IF fs.nodes[node].isReadOnly \/ fs.nodes[node].parent = NULL
        THEN Outcome(fs, "fail", node, NULL)
        ELSE LET parent == getNodeById(fs, fs.nodes[node].parent)
             IN  IF parent = NULL THEN Outcome(fs, "fail", node, NULL)
                 ELSE LET toDelete == collectDescendants(fs, node, StackDepth)
                          p == fs.nodes[parent]
                          kept == [k \in DOMAIN fs.nodes \ Range(toDelete.ids) |-> fs.nodes[k]]
                          \* newNodes[parent.id] = {...parent, children: ...} puts the
                          \* parent read before the deletion back into the mapping
                          newNodes == Put(kept, parent,
                                          [p EXCEPT !.children = Without(p.children, node)])
                      IN  IF toDelete.thrown THEN Outcome(fs, "throw", node, parent)
                          ELSE Outcome([fs EXCEPT !.nodes = newNodes], "ok", node, parent)

RECURSIVE updatePaths(_, _, _, _, _, _, _)
\* The recursive helper of renameNode; every call writes the store before it
\* descends, so an exception leaves the writes made so far.
updatePaths(nodes, nodeId, oldBasePath, newBasePath, renamed, newName, depth) ==
    IF depth = 0 THEN [nodes |-> nodes, thrown |-> TRUE]
    ELSE IF nodeId \notin DOMAIN nodes THEN [nodes |-> nodes, thrown |-> FALSE]
    ELSE LET n == nodes[nodeId]
             written == Put(nodes, nodeId,
                            [n EXCEPT !.path = Replace(n.path, oldBasePath, newBasePath),
                                      !.name = IF nodeId = renamed THEN newName ELSE n.name])
             kids == IF n.type = "directory" THEN n.children ELSE <<>>
             RECURSIVE each(_, _)
             each(i, acc) ==
                 IF i > Len(kids) THEN [nodes |-> acc, thrown |-> FALSE]
                 ELSE LET r == updatePaths(acc, kids[i], oldBasePath, newBasePath,
                                           renamed, newName, depth - 1)
                      IN  IF r.thrown THEN r ELSE each(i + 1, r.nodes)
         IN  each(1, written)

renameNode(fs, path, newName) ==
    LET node == getNodeByPath(fs, path)
    IN  IF node = NULL THEN Outcome(fs, "fail", NULL, NULL)
        ELSE IF fs.nodes[node].isReadOnly THEN Outcome(fs, "fail", node, NULL)
        ELSE LET parentPath == getParentPath(path)
                 newPath == JoinPath(parentPath, newName)
             IN  IF getNodeByPath(fs, newPath) # NULL THEN Outcome(fs, "fail", node, NULL)
                 ELSE LET r == updatePaths(fs.nodes, node, fs.nodes[node].path, newPath,
                                           node, newName, StackDepth)
                      IN  Outcome([fs EXCEPT !.nodes = r.nodes],
                                  IF r.thrown THEN "throw" ELSE "ok", node, NULL)

moveNode(fs, sourcePath, destPath) ==
    LET node == getNodeByPath(fs, sourcePath)
        destParent == getNodeByPath(fs, destPath)
    IN  IF node = NULL \/ destParent = NULL THEN Outcome(fs, "fail", node, destParent)
        ELSE IF fs.nodes[destParent].type # "directory" \/ fs.nodes[node].isReadOnly
        THEN Outcome(fs, "fail", node, destParent)
        ELSE LET oldParent == IF fs.nodes[node].parent # NULL
                              THEN getNodeById(fs, fs.nodes[node].parent) ELSE NULL
                 newPath == JoinPath(destPath, fs.nodes[node].name)
             IN  IF oldParent = NULL THEN Outcome(fs, "fail", node, destParent)
                 ELSE IF getNodeByPath(fs, newPath) # NULL
                 THEN Outcome(fs, "fail", node, destParent)
                 ELSE LET n == fs.nodes[node]
                          o == fs.nodes[oldParent]
                          d == fs.nodes[destParent]
                          \* one object literal with three computed keys, each value
                          \* built from the node read before the write: of two equal
                          \* keys the later one stands
                          w1 == Put(fs.nodes, node,
                                    [n EXCEPT !.path = newPath, !.parent = destParent])
                          w2 == Put(w1, oldParent,
                                    [o EXCEPT !.children = Without(o.children, node)])
                          w3 == Put(w2, destParent,
                                    [d EXCEPT !.children = Append(d.children, node)])
                      IN  Outcome([fs EXCEPT !.nodes = w3], "ok", node, destParent)

updateFileContent(fs, path, content) ==
    LET node == getNodeByPath(fs, path)
    IN  IF node = NULL THEN Outcome(fs, "fail", NULL, NULL)
        ELSE IF fs.nodes[node].type # "file" \/ fs.nodes[node].isReadOnly
        THEN Outcome(fs, "fail", node, NULL)
        ELSE Outcome([fs EXCEPT !.nodes[node].content = content,
                                !.nodes[node].size = Len(content)],
                     "ok", node, NULL)

\* node.content || '' of a file, null for a missing node or a directory
readFile(fs, path) ==
    LET node == getNodeByPath(fs, path)
    IN  IF node = NULL \/ fs.nodes[node].type # "file"
        THEN [found |-> FALSE, content |-> <<>>]
        ELSE [found |-> TRUE, content |-> fs.nodes[node].content]

(***************************************************************************)
(* Snapshots.  JSON.stringify keeps the own properties of an object whose  *)
(* value is not undefined, in insertion order; JSON.parse builds an object *)
(* with exactly the properties of the text.  The text is modelled by the   *)
(* value it denotes (a record with the properties written), or by          *)
(* json = FALSE for text that is no JSON at all.  A node carries `content` *)
(* when it is a file, `children` when it is a directory and `isReadOnly`   *)
(* when the flag was passed to createNode.  JSON writes a Date as a        *)
(* string; timestamps are not in the model.                                *)
(***************************************************************************)
IsTree(fs) == {"nodes", "root", "currentDirectory"} \subseteq DOMAIN fs

OwnKeys(n) ==
    {"id", "name", "type", "path", "parent", "size"}
        \cup (IF n.type = "file" THEN {"content"} ELSE {"children"})
        \cup (IF n.isReadOnly THEN {"isReadOnly"} ELSE {})

\* a stringify that loses the content of every file
StringifyNodeLossy(n) == [k \in OwnKeys(n) \ {"content"} |-> n[k]]

\* JSON.stringify of one node
StringifyNode(n) == [k \in OwnKeys(n) |-> n[k]]

\* the node JSON.parse builds, read the way the store reads it: a missing
\* property reads as undefined
ParseNode(j) ==
    [id |-> j.id, name |-> j.name, type |-> j.type, path |-> j.path,
     parent |-> j.parent, size |-> j.size,
     content |-> IF "content" \in DOMAIN j THEN j.content ELSE <<>>,
     children |-> IF "children" \in DOMAIN j THEN j.children ELSE <<>>,
     isReadOnly |-> IF "isReadOnly" \in DOMAIN j THEN j.isReadOnly ELSE FALSE]

JSONstringify(fs) ==
    IF IsTree(fs)
    THEN [json |-> TRUE,
          value |-> [nodes |-> [k \in DOMAIN fs.nodes |-> StringifyNode(fs.nodes[k])],
                     root |-> fs.root,
                     currentDirectory |-> fs.currentDirectory]]
    ELSE [json |-> TRUE, value |-> fs]

JSONparse(data) ==
    IF IsTree(data.value)
    THEN [nodes |-> [k \in DOMAIN data.value.nodes |-> ParseNode(data.value.nodes[k])],
          root |-> data.value.root,
          currentDirectory |-> data.value.currentDirectory]
    ELSE data.value

exportFilesystem(fs) == JSONstringify(fs)

\* try { set({ filesystem: JSON.parse(data) }); return true } catch { return false }
importFilesystem(fs, data) ==
    IF data.json THEN Outcome(JSONparse(data), "ok", NULL, NULL)
    ELSE Outcome(fs, "fail", NULL, NULL)

\* texts that are no export of the store: no JSON, the JSON null, a JSON number
NOT_JSON == [json |-> FALSE]
JSON_NULL == [json |-> TRUE, value |-> [null |-> TRUE]]
JSON_NUMBER == [json |-> TRUE, value |-> [number |-> 42]]

ForeignBlobs == {NOT_JSON, JSON_NULL, JSON_NUMBER}

(***************************************************************************)
(* The system store and the terminal store, as far as the filesystem and   *)
(* the shell use them.                                                     *)
(***************************************************************************)
InitialSystem ==
    [machine_state |-> "running",
     integrity |-> 100,
     snapshots |-> <<>>,
     total_commands |-> 0]

InitialTerminal ==
    [history |-> <<>>,
     commandHistory |-> <<>>,
     historyIndex |-> -1,
     currentInput |-> <<>>,
     workingDirectory |-> HOME_USER]

(***************************************************************************)
(* The arguments the callers pass, and the state machine of the store.     *)
(***************************************************************************)
N_a == <<"a">>
C_hi == <<"h", "i">>

\* absolute, ~-prefixed, empty and cwd-relative argument forms; /notes names no
\* node of the seed tree
PathArgs ==
    {SLASH, SLASH \o N_system, P_data, TILDE, <<>>, N_README_md, N_notes,
     SLASH \o N_notes}

NameArgs == {N_a, N_notes}

ContentArgs == {C_hi}

\* what the last call was: its name, its name or content argument, its result
\* and the nodes it looked up
Record(op, arg, out) ==
    [op |-> op, arg |-> arg, res |-> out.res, node |-> out.node, dest |-> out.dest]

Init ==
    /\ filesystem = createInitialFilesystem
    /\ nextId = SEED_COUNT + 1
    /\ last = [op |-> "none", arg |-> <<>>, res |-> "none", node |-> NULL, dest |-> NULL]
    /\ steps = 0
    /\ system = InitialSystem
    /\ terminal = InitialTerminal

SetCurrentDirectory ==
    \E path \in PathArgs :
        LET out == setCurrentDirectory(filesystem, path)
        IN  /\ steps < MaxOps
            /\ steps' = steps + 1
            /\ filesystem' = out.fs
            /\ last' = Record("setCurrentDirectory", <<>>, out)
            /\ UNCHANGED <<nextId, system, terminal>>

\* uuidv4() is called only after both checks have passed
CreateFile ==
    \E name \in NameArgs, parentPath \in PathArgs, content \in ContentArgs \cup {<<>>} :
        LET out == createFile(filesystem, nextId, name, parentPath, content)
        IN  /\ steps < MaxOps
            /\ steps' = steps + 1
            /\ filesystem' = out.fs
            /\ last' = Record("createFile", name, out)
            /\ nextId' = IF out.res = "ok" THEN nextId + 1 ELSE nextId
            /\ UNCHANGED <<system, terminal>>

CreateDirectory ==
    \E name \in NameArgs, parentPath \in PathArgs :
        LET out == createDirectory(filesystem, nextId, name, parentPath)
        IN  /\ steps < MaxOps
            /\ steps' = steps + 1
            /\ filesystem' = out.fs
            /\ last' = Record("createDirectory", name, out)
            /\ nextId' = IF out.res = "ok" THEN nextId + 1 ELSE nextId
            /\ UNCHANGED <<system, terminal>>

DeleteNode ==
    \E path \in PathArgs :
        LET out == deleteNode(filesystem, path)
        IN  /\ steps < MaxOps
            /\ steps' = steps + 1
            /\ filesystem' = out.fs
            /\ last' = Record("deleteNode", <<>>, out)
            /\ UNCHANGED <<nextId, system, terminal>>

RenameNode ==
    \E path \in PathArgs, newName \in NameArgs :
        LET out == renameNode(filesystem, path, newName)
        IN  /\ steps < MaxOps
            /\ steps' = steps + 1
            /\ filesystem' = out.fs
            /\ last' = Record("renameNode", newName, out)
            /\ UNCHANGED <<nextId, system, terminal>>

MoveNode ==
    \E sourcePath \in PathArgs, destPath \in PathArgs :
        LET out == moveNode(filesystem, sourcePath, destPath)
        IN  /\ steps < MaxOps
            /\ steps' = steps + 1
            /\ filesystem' = out.fs
            /\ last' = Record("moveNode", <<>>, out)
            /\ UNCHANGED <<nextId, system, terminal>>

UpdateFileContent ==
    \E path \in PathArgs, content \in ContentArgs :
        LET out == updateFileContent(filesystem, path, content)
        IN  /\ steps < MaxOps
            /\ steps' = steps + 1
            /\ filesystem' = out.fs
            /\ last' = Record("updateFileContent", content, out)
            /\ UNCHANGED <<nextId, system, terminal>>

Next ==
    \/ SetCurrentDirectory
    \/ CreateFile
    \/ CreateDirectory
    \/ DeleteNode
    \/ RenameNode
    \/ MoveNode
    \/ UpdateFileContent

Spec == Init /\ [][Next]_vars

(***************************************************************************)
(* resolvePath as a function of its argument and the current directory:    *)
(* the argument is any string of at most MaxLen characters of PathChars,   *)
(* the current directory any directory of the seed tree (the states        *)
(* setCurrentDirectory reaches from the seed).                             *)
(***************************************************************************)
PathChars == {"/", ".", "~", "a"}

PathStrings == UNION {[1..n -> PathChars] : n \in 0..MaxLen}

SeedDirectories ==
    {i \in 1..SEED_COUNT : SeedNodes[i].type = "directory"}

InitResolve ==
    /\ \E cwd \in SeedDirectories :
           filesystem = [createInitialFilesystem EXCEPT !.currentDirectory = cwd]
    /\ nextId = SEED_COUNT + 1
    /\ \E p \in PathStrings :
           last = [op |-> "none", arg |-> p, once |-> <<>>, twice |-> <<>>]
    /\ steps = 0
    /\ system = InitialSystem
    /\ terminal = InitialTerminal

\* resolvePath(p), and resolvePath of what it returned
ResolvePath ==
    /\ last.op = "none"
    /\ LET once == resolvePath(filesystem, last.arg)
       IN  last' = [op |-> "resolvePath", arg |-> last.arg, once |-> once,
                    twice |-> resolvePath(filesystem, once)]
    /\ UNCHANGED <<filesystem, nextId, steps, system, terminal>>

NextResolve == ResolvePath

SpecResolve == InitResolve /\ [][NextResolve]_vars

(***************************************************************************)
(* C8: resolvePath returns a normal form: it starts with "/", has no "."   *)
(* or ".." segment and no empty segment, and no trailing "/" unless it is  *)
(* "/" itself; ".." at the root is a no-op.                                *)
(***************************************************************************)
IsNormalForm(s) ==
    /\ StartsWith(s, SLASH)
    /\ \/ s = SLASH
       \/ LET parts == Tail(Split(s))
          IN  \A i \in DOMAIN parts : parts[i] \notin {<<>>, DOT, DOTDOT}

\* C8: what resolvePath returns is in normal form, and "/.." resolves to "/"
ResolveNormalForm ==
    last.op = "resolvePath" =>
        /\ IsNormalForm(last.once)
        /\ (last.arg = SLASH \o DOTDOT => last.once = SLASH)

(***************************************************************************)
(* C9: resolvePath is idempotent: resolving what it returned returns the   *)
(* same path.                                                              *)
(***************************************************************************)
\* C9: resolvePath(resolvePath(p)) = resolvePath(p)
ResolveIdempotent ==
    last.op = "resolvePath" => last.twice = last.once

(***************************************************************************)
(* The store without moveNode and without setCurrentDirectory.             *)
(***************************************************************************)
NextNoMove ==
    \/ CreateFile
    \/ CreateDirectory
    \/ DeleteNode
    \/ RenameNode
    \/ UpdateFileContent

SpecNoMove == Init /\ [][NextNoMove]_vars

(***************************************************************************)
(* The store with snapshots: at most MaxSnapOps calls of the operations    *)
(* above, createSnapshot and restoreSnapshot of the system store, and      *)
(* importFilesystem called with a text that is no export.  A snapshot id   *)
(* is the snapshot's place in the list; 0 names no snapshot.  The          *)
(* notification createSnapshot and restoreSnapshot post is left out.       *)
(***************************************************************************)
MaxSnapOps == 1
MaxSnapshots == 1

\* what an import was given: a text that is the export of a tree or not
\* (valid), and the export of the very tree it replaces or not (fresh)
ImportRecord(op, data, out) ==
    [op |-> op, arg |-> <<>>, res |-> out.res, node |-> NULL, dest |-> NULL,
     valid |-> data.json /\ IsTree(data.value),
     fresh |-> data = exportFilesystem(filesystem)]

CreateSnapshot ==
    /\ Len(system.snapshots) < MaxSnapshots
    /\ system' = [system EXCEPT !.snapshots = Append(@, exportFilesystem(filesystem))]
    /\ last' = [op |-> "createSnapshot", arg |-> <<>>, res |-> "ok",
                node |-> NULL, dest |-> NULL]
    /\ UNCHANGED <<filesystem, nextId, steps, terminal>>

RestoreSnapshot ==
    \E snapshotId \in 0..Len(system.snapshots) :
        IF snapshotId = 0
        THEN /\ last' = [op |-> "restoreSnapshot", arg |-> <<>>, res |-> "fail",
                         node |-> NULL, dest |-> NULL, valid |-> TRUE, fresh |-> FALSE]
             /\ UNCHANGED <<filesystem, nextId, steps, system, terminal>>
        ELSE LET data == system.snapshots[snapshotId]
                 out == importFilesystem(filesystem, data)
             IN  /\ filesystem' = out.fs
                 /\ system' = IF out.res = "ok"
                              THEN [system EXCEPT !.machine_state = "running",
                                                  !.integrity = 100]
                              ELSE system
                 /\ last' = ImportRecord("restoreSnapshot", data, out)
                 /\ UNCHANGED <<nextId, steps, terminal>>

ImportFilesystem ==
    \E data \in ForeignBlobs :
        LET out == importFilesystem(filesystem, data)
        IN  /\ filesystem' = out.fs
            /\ last' = ImportRecord("importFilesystem", data, out)
            /\ UNCHANGED <<nextId, steps, system, terminal>>

\* every operation above reads get().filesystem.nodes first: on a value that
\* is no tree the read throws TypeError
BrokenStoreCall ==
    /\ ~IsTree(filesystem)
    /\ last' = [op |-> "storeCall", arg |-> <<>>, res |-> "throw",
                node |-> NULL, dest |-> NULL]
    /\ UNCHANGED <<filesystem, nextId, steps, system, terminal>>

StoreCall == steps < MaxSnapOps /\ IsTree(filesystem) /\ Next

NextSnapshot ==
    \/ StoreCall
    \/ CreateSnapshot
    \/ RestoreSnapshot

SpecSnapshot == Init /\ [][NextSnapshot]_vars

\* the same with importFilesystem given texts that are no export
NextImport ==
    \/ StoreCall
    \/ CreateSnapshot
    \/ RestoreSnapshot
    \/ ImportFilesystem
    \/ BrokenStoreCall

SpecImport == Init /\ [][NextImport]_vars

(***************************************************************************)
(* The shell interpreter (src/src/stores/terminalStore.ts).                *)
(*                                                                         *)
(* String primitives of executeCommand.  The space is the one whitespace   *)
(* character of the model (\s matches tab and newline alike).              *)
(***************************************************************************)
SP == <<" ">>
QUOTE == "\""

RECURSIVE TrimStart(_)
TrimStart(s) == IF s # <<>> /\ Head(s) = " " THEN TrimStart(Tail(s)) ELSE s

RECURSIVE TrimEnd(_)
TrimEnd(s) == IF s # <<>> /\ s[Len(s)] = " " THEN TrimEnd(Pop(s)) ELSE s

\* rawInput.trim()
Trim(s) == TrimEnd(TrimStart(s))

\* input.split(/\s+/)[0]: the characters before the first whitespace
FirstWord(s) ==
    LET spaces == {i \in DOMAIN s : s[i] = " "}
    IN  IF spaces = {} THEN s ELSE SubSeq(s, 1, Min(spaces) - 1)

RECURSIVE MatchEnd(_, _)
\* where a match of (?:[^\s"]+|"[^"]*")+ that starts at pos ends (the index
\* after its last character; pos itself when nothing matches there)
MatchEnd(s, pos) ==
    IF pos > Len(s) \/ s[pos] = " " THEN pos
    ELSE IF s[pos] = QUOTE
    THEN LET closing == {k \in (pos + 1)..Len(s) : s[k] = QUOTE}
         IN  IF closing = {} THEN pos ELSE MatchEnd(s, Min(closing) + 1)
    ELSE MatchEnd(s, pos + 1)

RECURSIVE MatchAll(_, _, _)
MatchAll(s, i, acc) ==
    IF i > Len(s) THEN acc
    ELSE LET e == MatchEnd(s, i)
         IN  IF e > i THEN MatchAll(s, e, Append(acc, SubSeq(s, i, e - 1)))
             ELSE MatchAll(s, i + 1, acc)

\* expandedInput.match(/(?:[^\s"]+|"[^"]*")+/g) || []
Tokenize(s) == MatchAll(s, 1, <<>>)

UPPER ==
    <<"A", "B", "C", "D", "E", "F", "G", "H", "I", "J", "K", "L", "M",
      "N", "O", "P", "Q", "R", "S", "T", "U", "V", "W", "X", "Y", "Z">>
LOWER ==
    <<"a", "b", "c", "d", "e", "f", "g", "h", "i", "j", "k", "l", "m",
      "n", "o", "p", "q", "r", "s", "t", "u", "v", "w", "x", "y", "z">>

\* s.toLowerCase()
ToLowerCase(s) ==
    [i \in DOMAIN s |->
        IF \E k \in DOMAIN UPPER : UPPER[k] = s[i]
        THEN LOWER[CHOOSE k \in DOMAIN UPPER : UPPER[k] = s[i]]
        ELSE s[i]]

\* a.replace(/^"|"$/g, ''): one leading and one trailing double quote go
StripQuotes(a) ==
    LET b == IF a # <<>> /\ Head(a) = QUOTE THEN Tail(a) ELSE a
    IN  IF b # <<>> /\ b[Len(b)] = QUOTE THEN Pop(b) ELSE b

\* text.replace(/^["']|["']$/g, '') of echo
StripAnyQuotes(a) ==
    LET b == IF a # <<>> /\ Head(a) \in {QUOTE, "'"} THEN Tail(a) ELSE a
    IN  IF b # <<>> /\ b[Len(b)] \in {QUOTE, "'"} THEN Pop(b) ELSE b

RECURSIVE JoinWith(_, _)
\* parts.join(sep)
JoinWith(parts, sep) ==
    IF parts = <<>> THEN <<>>
    ELSE IF Len(parts) = 1 THEN parts[1]
    ELSE parts[1] \o sep \o JoinWith(Tail(parts), sep)

\* path.split('/').pop() || ''
LastSegment(path) == Split(path)[Len(Split(path))]

\* args.includes(x)
Includes(args, x) == \E i \in DOMAIN args : args[i] = x

\* args.filter(a => !a.startsWith('-'))
NonFlags(args) == SelectSeq(args, LAMBDA a : ~StartsWith(a, <<"-">>))

(***************************************************************************)
(* The texts of the shell.                                                 *)
(***************************************************************************)
K_help == <<"h", "e", "l", "p">>
K_pwd == <<"p", "w", "d">>
K_cd == <<"c", "d">>
K_ls == <<"l", "s">>
K_cat == <<"c", "a", "t">>
K_touch == <<"t", "o", "u", "c", "h">>
K_mkdir == <<"m", "k", "d", "i", "r">>
K_rm == <<"r", "m">>
K_echo == <<"e", "c", "h", "o">>
K_whoami == <<"w", "h", "o", "a", "m", "i">>
K_hostname == <<"h", "o", "s", "t", "n", "a", "m", "e">>
K_uname == <<"u", "n", "a", "m", "e">>
K_date == <<"d", "a", "t", "e">>
K_uptime == <<"u", "p", "t", "i", "m", "e">>
K_clear == <<"c", "l", "e", "a", "r">>
K_history == <<"h", "i", "s", "t", "o", "r", "y">>
K_exit == <<"e", "x", "i", "t">>
K_head == <<"h", "e", "a", "d">>
K_tail == <<"t", "a", "i", "l">>
K_wc == <<"w", "c">>
K_grep == <<"g", "r", "e", "p">>
K_man == <<"m", "a", "n">>
K_rm_rf_root == <<"r", "m", " ", "-", "r", "f", " ", "/">>
A_ll == <<"l", "l">>
A_la == <<"l", "a">>
A_cls == <<"c", "l", "s">>
A_c == <<"c">>
T_ls_la == <<"l", "s", " ", "-", "l", "a">>
T_ls_a == <<"l", "s", " ", "-", "a">>
O_constructor == <<"c", "o", "n", "s", "t", "r", "u", "c", "t", "o", "r">>
O_proto == <<"_", "_", "p", "r", "o", "t", "o", "_", "_">>
O_toString == <<"t", "o", "S", "t", "r", "i", "n", "g">>
O_valueOf == <<"v", "a", "l", "u", "e", "O", "f">>
T_object_Object == <<"[", "o", "b", "j", "e", "c", "t", " ", "O", "b", "j", "e", "c", "t", "]">>
T_object_Undefined ==
    <<"[", "o", "b", "j", "e", "c", "t", " ", "U", "n", "d", "e", "f", "i", "n", "e", "d", "]">>
T_not_found ==
    <<":", " ", "c", "o", "m", "m", "a", "n", "d", " ", "n", "o", "t", " ", "f", "o", "u", "n",
      "d">>
CLEAR_SENTINEL == <<"_", "_", "C", "L", "E", "A", "R", "_", "_">>
EXIT_SENTINEL == <<"_", "_", "E", "X", "I", "T", "_", "_">>
T_cd == <<"c", "d", ":", " ">>
T_no_such_directory ==
    <<":", " ", "N", "o", " ", "s", "u", "c", "h", " ", "d", "i", "r", "e", "c", "t", "o", "r",
      "y">>
T_cat_missing ==
    <<"c", "a", "t", ":", " ", "m", "i", "s", "s", "i", "n", "g", " ", "o", "p", "e", "r", "a",
      "n", "d">>
T_cat == <<"c", "a", "t", ":", " ">>
T_no_such_file == <<":", " ", "N", "o", " ", "s", "u", "c", "h", " ", "f", "i", "l", "e">>
T_touch_missing ==
    <<"t", "o", "u", "c", "h", ":", " ", "m", "i", "s", "s", "i", "n", "g", " ", "o", "p", "e",
      "r", "a", "n", "d">>
T_touch_cannot ==
    <<"t", "o", "u", "c", "h", ":", " ", "c", "a", "n", "n", "o", "t", " ", "c", "r", "e", "a",
      "t", "e", " ", "'">>
T_apostrophe == <<"'">>
T_mkdir_missing ==
    <<"m", "k", "d", "i", "r", ":", " ", "m", "i", "s", "s", "i", "n", "g", " ", "o", "p", "e",
      "r", "a", "n", "d">>
T_mkdir_cannot ==
    <<"m", "k", "d", "i", "r", ":", " ", "c", "a", "n", "n", "o", "t", " ", "c", "r", "e", "a",
      "t", "e", " ", "d", "i", "r", "e", "c", "t", "o", "r", "y", " ", "'">>
T_rm_missing ==
    <<"r", "m", ":", " ", "m", "i", "s", "s", "i", "n", "g", " ", "o", "p", "e", "r", "a", "n",
      "d">>
T_rm_cannot ==
    <<"r", "m", ":", " ", "c", "a", "n", "n", "o", "t", " ", "r", "e", "m", "o", "v", "e", " ",
      "'">>
T_no_such_file_or_directory ==
    <<"'", ":", " ", "N", "o", " ", "s", "u", "c", "h", " ", "f", "i", "l", "e", " ", "o", "r",
      " ", "d", "i", "r", "e", "c", "t", "o", "r", "y">>
T_is_a_directory ==
    <<"'", ":", " ", "I", "s", " ", "a", " ", "d", "i", "r", "e", "c", "t", "o", "r", "y">>
F_p == <<"-", "p">>
F_r == <<"-", "r">>
F_rf == <<"-", "r", "f">>
P_system == <<"/", "s", "y", "s", "t", "e", "m">>
T_wizard_vm == <<"w", "i", "z", "a", "r", "d", "-", "v", "m">>
T_user == <<"u", "s", "e", "r">>
T_destroying ==
    <<"r", "m", ":", " ", "d", "e", "s", "t", "r", "o", "y", "i", "n", "g", " ", "f", "i", "l",
      "e", "s", "y", "s", "t", "e", "m", ".", ".", ".">>
T_what_manual ==
    <<"W", "h", "a", "t", " ", "m", "a", "n", "u", "a", "l", " ", "p", "a", "g", "e", " ", "d",
      "o", " ", "y", "o", "u", " ", "w", "a", "n", "t", "?">>
T_no_manual ==
    <<"N", "o", " ", "m", "a", "n", "u", "a", "l", " ", "e", "n", "t", "r", "y", " ", "f", "o",
      "r", " ">>
T_man_tail ==
    <<"(", "1", ")", " ", "-", " ", "T", "y", "p", "e", " ", "'", "h", "e", "l", "p", "'", " ",
      "f", "o", "r", " ", "c", "o", "m", "m", "a", "n", "d", " ", "l", "i", "s", "t">>

\* the value of a property that was never written, and of its exitCode
UNDEFINED == <<"undefined">>
UNDEFINED_CODE == -1

(***************************************************************************)
(* Property lookup.  `aliases` and `commands` are plain objects, so        *)
(* table[key] finds the properties they inherit from Object.prototype as   *)
(* well as their own.  Four inherited names are modelled: constructor (the *)
(* function Object), __proto__ (the object Object.prototype), toString and *)
(* valueOf; the remaining ones behave like one of these.                   *)
(***************************************************************************)
Undefined == [kind |-> "undefined", text |-> <<>>]

InheritedProperty(key) ==
    IF key = O_constructor THEN [kind |-> "Object", text |-> <<>>]
    ELSE IF key = O_proto THEN [kind |-> "prototype", text |-> <<>>]
    ELSE IF key = O_toString THEN [kind |-> "toString", text |-> <<>>]
    ELSE IF key = O_valueOf THEN [kind |-> "valueOf", text |-> <<>>]
    ELSE Undefined

\* get().aliases[firstWord]
AliasLookup(key) ==
    IF key = A_ll THEN [kind |-> "string", text |-> T_ls_la]
    ELSE IF key = A_la THEN [kind |-> "string", text |-> T_ls_a]
    ELSE IF key = A_cls \/ key = A_c THEN [kind |-> "string", text |-> K_clear]
    ELSE InheritedProperty(key)

CommandNames ==
    {K_help, K_pwd, K_cd, K_ls, K_cat, K_touch, K_mkdir, K_rm, K_echo, K_whoami,
     K_hostname, K_uname, K_date, K_uptime, K_clear, K_history, K_exit, K_head,
     K_tail, K_wc, K_grep, K_man, K_rm_rf_root}

\* commands[cmd]
CommandLookup(key) ==
    IF key \in CommandNames THEN [kind |-> "handler", text |-> key]
    ELSE InheritedProperty(key)

\* an expansion that replaces the last occurrence of the first word
ExpandAliasLast(input) ==
    LET firstWord == FirstWord(input)
        old == firstWord
        hits == {i \in 0..(Len(input) - Len(old)) :
                     SubSeq(input, i + 1, i + Len(old)) = old}
        i == CHOOSE h \in hits : \A g \in hits : h >= g
    IN  IF AliasLookup(firstWord).kind # "string" \/ hits = {}
        THEN [thrown |-> FALSE, text |-> input]
        ELSE [thrown |-> FALSE,
              text |-> SubSeq(input, 1, i) \o AliasLookup(firstWord).text
                           \o SubSeq(input, i + Len(old) + 1, Len(input))]

\* alias ? input.replace(firstWord, alias) : input.  Every value found is
\* truthy.  replace calls a function it is given as replacer with this
\* undefined and the match as argument: Object returns the match as a String
\* object, toString returns "[object Undefined]", valueOf throws TypeError; an
\* object that is no function is converted to a string.
ExpandAlias(input) ==
    LET firstWord == FirstWord(input)
        alias == AliasLookup(firstWord)
        text(t) == [thrown |-> FALSE, text |-> t]
    IN  IF alias.kind = "undefined" THEN text(input)
        ELSE IF alias.kind = "string" THEN text(Replace(input, firstWord, alias.text))
        ELSE IF alias.kind = "Object" THEN text(Replace(input, firstWord, firstWord))
        ELSE IF alias.kind = "prototype" THEN text(Replace(input, firstWord, T_object_Object))
        ELSE IF alias.kind = "toString"
        THEN text(Replace(input, firstWord, T_object_Undefined))
        ELSE [thrown |-> TRUE, text |-> input]

(***************************************************************************)
(* The command handlers.  A handler works on st, the filesystem value, the *)
(* system state and the next fresh node id, and returns the state it       *)
(* leaves, its output and its exit code; thrown marks an exception that    *)
(* escapes it.  The handlers of help, whoami, uname, date, uptime,         *)
(* history, head, tail, wc and man write no store; they are not spelled    *)
(* out and no input line of the model dispatches them.                     *)
(***************************************************************************)
Returned(st, output, exitCode) ==
    [st |-> st, output |-> output, exitCode |-> exitCode, thrown |-> FALSE]

Thrown(st) ==
    [st |-> st, output |-> UNDEFINED, exitCode |-> UNDEFINED_CODE, thrown |-> TRUE]

\* !args[0]: no first argument, or an empty one
NoOperand(args) == args = <<>> \/ args[1] = <<>>

\* Math.max(0, Math.min(100, integrity + delta)), then brickSystem at 0
updateIntegrity(sys, delta) ==
    LET sum == sys.integrity + delta
        clamped == IF sum > 100 THEN 100 ELSE IF sum < 0 THEN 0 ELSE sum
    IN  IF clamped <= 0
        THEN [sys EXCEPT !.integrity = 0, !.machine_state = "bricked"]
        ELSE [sys EXCEPT !.integrity = clamped]

\* the calls a handler makes on the other stores, in the order it makes them
Event(call, node, delta) == [call |-> call, node |-> node, delta |-> delta]

\* useSystemStore.getState().updateIntegrity(delta)
Reported(st, delta) ==
    [st EXCEPT !.sys = updateIntegrity(@, delta),
               !.events = Append(@, Event("updateIntegrity", NULL, delta))]

cmd_pwd(args, st) == Returned(st, CurrentPath(st.fs), 0)

cmd_cd(args, st) ==
    LET target == IF NoOperand(args) THEN TILDE ELSE args[1]
        out == setCurrentDirectory(st.fs, target)
    IN  IF out.res = "ok" THEN Returned([st EXCEPT !.fs = out.fs], <<>>, 0)
        ELSE Returned(st, T_cd \o target \o T_no_such_directory, 1)

(***************************************************************************)
(* ls.  The date column of the long format is the locale text of a         *)
(* timestamp; timestamps are not part of the model and T_date stands for   *)
(* that text.  permissions, owner and group are written by createNode only *)
(* and depend on the type alone.                                           *)
(***************************************************************************)
F_a == <<"-", "a">>
F_l == <<"-", "l">>
F_la == <<"-", "l", "a">>
F_al == <<"-", "a", "l">>
T_ls_cannot ==
    <<"l", "s", ":", " ", "c", "a", "n", "n", "o", "t", " ", "a", "c", "c", "e", "s", "s", " ",
      "'">>
T_perm_dir == <<"r", "w", "x", "r", "-", "x", "r", "-", "x">>
T_perm_file == <<"r", "w", "-", "r", "-", "-", "r", "-", "-">>
T_two_spaces == <<" ", " ">>
T_date == <<"<date>">>
NEWLINE == <<"\n">>
DIGITS == <<"0", "1", "2", "3", "4", "5", "6", "7", "8", "9">>

RECURSIVE NumberToString(_)
\* size.toString()
NumberToString(n) ==
    IF n < 10 THEN <<DIGITS[n + 1]>>
    ELSE NumberToString(n \div 10) \o <<DIGITS[(n % 10) + 1]>>

\* text.padStart(width)
PadStart(text, width) ==
    [i \in 1..(IF Len(text) < width THEN width - Len(text) ELSE 0) |-> " "] \o text

\* getChildren(nodeId): the children that are in the node mapping
getChildren(fs, id) ==
    IF id \notin DOMAIN fs.nodes \/ fs.nodes[id].type # "directory" THEN <<>>
    ELSE SelectSeq(fs.nodes[id].children, LAMBDA c : c \in DOMAIN fs.nodes)

LongLine(item) ==
    (IF item.type = "directory" THEN <<"d">> \o T_perm_dir ELSE <<"-">> \o T_perm_file)
        \o SP \o T_user \o SP \o T_user \o SP \o PadStart(NumberToString(item.size), 8)
        \o SP \o T_date \o SP \o item.name

ShortName(item) == IF item.type = "directory" THEN item.name \o SLASH ELSE item.name

\* the listing of a directory
Listing(fs, id, showAll, longFormat) ==
    LET children == getChildren(fs, id)
        items == IF showAll THEN children
                 ELSE SelectSeq(children, LAMBDA c : ~StartsWith(fs.nodes[c].name, DOT))
    IN  IF longFormat
        THEN JoinWith([i \in DOMAIN items |-> LongLine(fs.nodes[items[i]])], NEWLINE)
        ELSE JoinWith([i \in DOMAIN items |-> ShortName(fs.nodes[items[i]])], T_two_spaces)

cmd_ls(args, st) ==
    LET showAll == Includes(args, F_a) \/ Includes(args, F_la) \/ Includes(args, F_al)
        longFormat == Includes(args, F_l) \/ Includes(args, F_la) \/ Includes(args, F_al)
        operands == NonFlags(args)
        given == operands # <<>> /\ operands[1] # <<>>
        targetPath == IF operands = <<>> THEN UNDEFINED ELSE operands[1]
        targetNode == IF given THEN getNodeByPath(st.fs, targetPath)
                      ELSE getNodeById(st.fs, st.fs.currentDirectory)
    IN  IF targetNode = NULL
        THEN Returned(st, T_ls_cannot \o targetPath \o T_no_such_file_or_directory, 1)
        ELSE IF st.fs.nodes[targetNode].type = "file"
        THEN Returned(st, st.fs.nodes[targetNode].name, 0)
        ELSE Returned(st, Listing(st.fs, targetNode, showAll, longFormat), 0)

cmd_cat(args, st) ==
    IF NoOperand(args) THEN Returned(st, T_cat_missing, 1)
    ELSE LET content == readFile(st.fs, args[1])
         IN  IF ~content.found
             THEN Returned(st, T_cat \o args[1] \o T_no_such_file, 1)
             ELSE Returned(st, content.content, 0)

cmd_touch(args, st) ==
    IF NoOperand(args) THEN Returned(st, T_touch_missing, 1)
    ELSE LET path == resolvePath(st.fs, args[1])
         IN  IF getNodeByPath(st.fs, path) # NULL THEN Returned(st, <<>>, 0)
             ELSE LET out == createFile(st.fs, st.nextId, LastSegment(path),
                                        getParentPath(path), <<>>)
                  IN  IF out.res = "ok"
                      THEN Returned([st EXCEPT !.fs = out.fs, !.nextId = @ + 1], <<>>, 0)
                      ELSE Returned(st, T_touch_cannot \o args[1] \o T_apostrophe, 1)

RECURSIVE mkdirEach(_, _, _)
\* for (const target of targetPaths)
mkdirEach(targetPaths, createParents, st) ==
    IF targetPaths = <<>> THEN Returned(st, <<>>, 0)
    ELSE LET target == Head(targetPaths)
             path == resolvePath(st.fs, target)
             out == createDirectory(st.fs, st.nextId, LastSegment(path),
                                    getParentPath(path))
         IN  IF out.res = "ok"
             THEN mkdirEach(Tail(targetPaths), createParents,
                            [st EXCEPT !.fs = out.fs, !.nextId = @ + 1])
             ELSE IF ~createParents
             THEN Returned(st, T_mkdir_cannot \o target \o T_apostrophe, 1)
             ELSE mkdirEach(Tail(targetPaths), createParents, st)

cmd_mkdir(args, st) ==
    IF NoOperand(args) THEN Returned(st, T_mkdir_missing, 1)
    ELSE mkdirEach(NonFlags(args), Includes(args, F_p), st)

RECURSIVE rmEach(_, _, _)
\* for (const target of targets): the result of deleteNode is not read
rmEach(targets, recursive, st) ==
    IF targets = <<>> THEN Returned(st, <<>>, 0)
    ELSE LET target == Head(targets)
             node == getNodeByPath(st.fs, target)
         IN  IF node = NULL
             THEN Returned(st, T_rm_cannot \o target \o T_no_such_file_or_directory, 1)
             ELSE IF st.fs.nodes[node].type = "directory" /\ ~recursive
             THEN Returned(st, T_rm_cannot \o target \o T_is_a_directory, 1)
             ELSE LET path == st.fs.nodes[node].path
                      reported == IF StartsWith(path, P_system) \/ path = HOME_USER
                                  THEN Reported(st, -25)
                                  ELSE st
                      out == deleteNode(reported.fs, target)
                      deleted == [reported EXCEPT
                                     !.fs = out.fs,
                                     !.events = Append(@, Event("deleteNode", node, 0))]
                  IN  IF out.res = "throw" THEN Thrown(deleted)
                      ELSE rmEach(Tail(targets), recursive, deleted)

cmd_rm(args, st) ==
    IF NoOperand(args) THEN Returned(st, T_rm_missing, 1)
    ELSE rmEach(NonFlags(args), Includes(args, F_r) \/ Includes(args, F_rf), st)

cmd_echo(args, st) == Returned(st, StripAnyQuotes(JoinWith(args, SP)), 0)

cmd_hostname(args, st) == Returned(st, T_wizard_vm, 0)

cmd_clear(args, st) == Returned(st, CLEAR_SENTINEL, 0)

cmd_exit(args, st) == Returned(st, EXIT_SENTINEL, 0)

T_grep_missing ==
    <<"g", "r", "e", "p", ":", " ", "m", "i", "s", "s", "i", "n", "g", " ", "p", "a", "t", "t",
      "e", "r", "n", " ", "o", "r", " ", "f", "i", "l", "e">>
T_grep == <<"g", "r", "e", "p", ":", " ">>
T_grep_invalid ==
    <<"g", "r", "e", "p", ":", " ", "i", "n", "v", "a", "l", "i", "d", " ", "p", "a", "t", "t",
      "e", "r", "n", " ", "'">>

RECURSIVE SplitLinesAcc(_, _, _, _)
SplitLinesAcc(s, i, cur, acc) ==
    IF i > Len(s) THEN Append(acc, cur)
    ELSE IF s[i] = NEWLINE[1] THEN SplitLinesAcc(s, i + 1, <<>>, Append(acc, cur))
    ELSE SplitLinesAcc(s, i + 1, Append(cur, s[i]), acc)

\* content.split('\n')
SplitLines(content) == SplitLinesAcc(content, 1, <<>>, <<>>)

\* new RegExp(pattern, 'gi'): a pattern made of letters is a search for that
\* text without regard to case; the other patterns of the model, an
\* unterminated group and an unterminated class, raise SyntaxError
Compiles(pattern) ==
    \A i \in DOMAIN pattern : pattern[i] \in Range(UPPER) \cup Range(LOWER)

\* the first place at or after from, counted from 0, where p occurs in s;
\* -1 if there is none
IndexOfFrom(s, p, from) ==
    LET places == {k \in from..(Len(s) - Len(p)) : SubSeq(s, k + 1, k + Len(p)) = p}
    IN  IF places = {} THEN -1
        ELSE CHOOSE k \in places : \A j \in places : k <= j

\* regex.test(line) of an expression with the g flag: the search starts at
\* lastIndex; a match leaves lastIndex behind the match, a failure sets it to 0
RegExpTest(pattern, lastIndex, line) ==
    LET at == IF lastIndex > Len(line) THEN -1
              ELSE IndexOfFrom(ToLowerCase(line), ToLowerCase(pattern), lastIndex)
    IN  IF at = -1 THEN [matched |-> FALSE, lastIndex |-> 0]
        ELSE [matched |-> TRUE, lastIndex |-> at + Len(pattern)]

RECURSIVE FilterLines(_, _, _)
\* lines.filter(line => regex.test(line)) with the one regex object
FilterLines(pattern, lines, lastIndex) ==
    IF lines = <<>> THEN <<>>
    ELSE LET t == RegExpTest(pattern, lastIndex, Head(lines))
             rest == FilterLines(pattern, Tail(lines), t.lastIndex)
         IN  IF t.matched THEN <<Head(lines)>> \o rest ELSE rest

cmd_grep(args, st) ==
    IF Len(args) < 2 THEN Returned(st, T_grep_missing, 1)
    ELSE LET pattern == args[1]
             file == args[2]
             content == readFile(st.fs, file)
         IN  IF ~content.found
             THEN Returned(st, T_grep \o file \o T_no_such_file, 1)
             ELSE IF ~Compiles(pattern)
             THEN Returned(st, T_grep_invalid \o pattern \o T_apostrophe, 2)
             ELSE LET matches == FilterLines(pattern, SplitLines(content.content), 0)
                  IN  Returned(st, JoinWith(matches, NEWLINE),
                               IF Len(matches) > 0 THEN 0 ELSE 1)

\* the entry of the table under the key 'rm -rf /'
cmd_rm_rf_root(args, st) ==
    Returned(Reported(st, -100), T_destroying, 0)

\* commands[cmd](args, fs) for an own property of the table
Handler(cmd, args, st) ==
    CASE cmd = K_pwd -> cmd_pwd(args, st)
      [] cmd = K_cd -> cmd_cd(args, st)
      [] cmd = K_ls -> cmd_ls(args, st)
      [] cmd = K_cat -> cmd_cat(args, st)
      [] cmd = K_touch -> cmd_touch(args, st)
      [] cmd = K_mkdir -> cmd_mkdir(args, st)
      [] cmd = K_rm -> cmd_rm(args, st)
      [] cmd = K_grep -> cmd_grep(args, st)
      [] cmd = K_echo -> cmd_echo(args, st)
      [] cmd = K_hostname -> cmd_hostname(args, st)
      [] cmd = K_clear -> cmd_clear(args, st)
      [] cmd = K_exit -> cmd_exit(args, st)
      [] cmd = K_rm_rf_root -> cmd_rm_rf_root(args, st)

\* commands[cmd](args, fs) for any property found.  Object(args) returns the
\* array args, which has no output and no exitCode; toString and valueOf return
\* a string and the table; Object.prototype is no function: TypeError.
Dispatch(found, args, st) ==
    IF found.kind = "handler" THEN Handler(found.text, args, st)
    ELSE IF found.kind = "prototype" THEN Thrown(st)
    ELSE Returned(st, UNDEFINED, UNDEFINED_CODE)

(***************************************************************************)
(* executeCommand.  The command record is left without its id and          *)
(* timestamp.  A user is logged in while the terminal is open, so          *)
(* updateStats counts the command.                                         *)
(***************************************************************************)
\* const name = value: the value is computed once and then read
Const(value, Rest(_)) == CHOOSE r \in {Rest(v) : v \in {value}} : TRUE

\* the command record and the set() call at the end of executeCommand
Conclude(rawInput, st, term, cmd, args, found, result) ==
    LET command == [input |-> rawInput,
                    output |-> result.output,
                    exitCode |-> result.exitCode,
                    workingDirectory |-> CurrentPath(result.st.fs)]
        counted == IF cmd # <<>>
                   THEN [result.st EXCEPT !.sys.total_commands = @ + 1]
                   ELSE result.st
    IN  IF result.thrown
        THEN [st |-> result.st, term |-> term, thrown |-> TRUE, cmd |-> cmd,
              args |-> args, found |-> found.kind, command |-> command]
        ELSE [st |-> counted,
              term |-> [history |-> IF result.output = CLEAR_SENTINEL THEN <<>>
                                    ELSE Append(term.history, command),
                        commandHistory |->
                            IF cmd # <<>>
                            THEN Append(SelectSeq(term.commandHistory,
                                                  LAMBDA c : c # rawInput), rawInput)
                            ELSE term.commandHistory,
                        historyIndex |-> -1,
                        currentInput |-> <<>>,
                        workingDirectory |-> CurrentPath(result.st.fs)],
              thrown |-> FALSE, cmd |-> cmd, args |-> args, found |-> found.kind,
              command |-> command]

\* the lookup in the table and the call of what it finds
Run(rawInput, st, term, cmd, args) ==
    Const(CommandLookup(cmd), LAMBDA found :
    Const(IF cmd = <<>> THEN Returned(st, <<>>, 0)
          ELSE IF found.kind # "undefined" THEN Dispatch(found, args, st)
          ELSE Returned(st, cmd \o T_not_found, 127), LAMBDA result :
    Conclude(rawInput, st, term, cmd, args, found, result)))

executeCommand(rawInput, st, term) ==
    Const(ExpandAlias(Trim(rawInput)), LAMBDA expandedInput :
    IF expandedInput.thrown
    THEN [st |-> st, term |-> term, thrown |-> TRUE, cmd |-> <<>>, args |-> <<>>,
          found |-> "undefined", command |-> Thrown(st)]
    ELSE Const(Tokenize(expandedInput.text), LAMBDA parts :
         Const(IF parts = <<>> THEN <<>> ELSE ToLowerCase(parts[1]), LAMBDA cmd :
         Const([i \in 1..(Len(parts) - 1) |-> StripQuotes(parts[i + 1])], LAMBDA args :
         Run(rawInput, st, term, cmd, args)))))

(***************************************************************************)
(* The input lines of the model, and the shell as a state machine: at most *)
(* MaxCmds calls of executeCommand from the seed tree.                     *)
(***************************************************************************)
MaxCmds == 2

L_empty == <<>>
L_blank == <<" ">>
L_quote == <<"\"">>
L_pwd == <<"p", "w", "d">>
L_cd_data == <<"c", "d", " ", "/", "d", "a", "t", "a">>
L_cd_nowhere == <<"c", "d", " ", "/", "n", "o", "w", "h", "e", "r", "e">>
L_cd_readme == <<"c", "d", " ", "R", "E", "A", "D", "M", "E", ".", "m", "d">>
L_rm_system == <<"r", "m", " ", "-", "r", " ", "/", "s", "y", "s", "t", "e", "m">>
L_rm_rf_root == <<"r", "m", " ", "-", "r", "f", " ", "/">>
L_rm_readme == <<"r", "m", " ", "R", "E", "A", "D", "M", "E", ".", "m", "d">>
L_rm_home == <<"r", "m", " ", "-", "r", " ", "~">>
L_rm_notes == <<"r", "m", " ", "n", "o", "t", "e", "s">>
L_mkdir_p == <<"m", "k", "d", "i", "r", " ", "-", "p", " ", "/", "x", "/", "y">>
L_mkdir_a == <<"m", "k", "d", "i", "r", " ", "a">>
L_mkdir_data == <<"m", "k", "d", "i", "r", " ", "/", "d", "a", "t", "a">>
L_touch_a == <<"t", "o", "u", "c", "h", " ", "a">>
L_touch_deep == <<"t", "o", "u", "c", "h", " ", "/", "x", "/", "y">>
L_cat_readme == <<"c", "a", "t", " ", "R", "E", "A", "D", "M", "E", ".", "m", "d">>
L_echo_clear == <<"e", "c", "h", "o", " ", "_", "_", "C", "L", "E", "A", "R", "_", "_">>
L_echo_exit == <<"e", "c", "h", "o", " ", "_", "_", "E", "X", "I", "T", "_", "_">>
L_clear == <<"c", "l", "e", "a", "r">>
L_cls == <<"c", "l", "s">>
L_exit == <<"e", "x", "i", "t">>
L_PWD == <<"P", "W", "D">>
L_constructor == <<"c", "o", "n", "s", "t", "r", "u", "c", "t", "o", "r">>
L_PROTO == <<"_", "_", "P", "R", "O", "T", "O", "_", "_">>
L_proto == <<"_", "_", "p", "r", "o", "t", "o", "_", "_">>
L_valueOf == <<"v", "a", "l", "u", "e", "O", "f">>
L_foo == <<"f", "o", "o">>
L_pwd_padded == <<" ", "p", "w", "d">>

ShellInputs ==
    {L_empty, L_blank, L_quote, L_pwd, L_cd_data, L_cd_nowhere, L_cd_readme, L_rm_system,
     L_rm_rf_root, L_rm_readme, L_rm_home, L_rm_notes, L_mkdir_p, L_mkdir_a,
     L_mkdir_data, L_touch_a, L_touch_deep, L_cat_readme, L_echo_clear, L_echo_exit,
     L_clear, L_cls, L_exit, L_PWD, L_constructor, L_PROTO, L_proto, L_valueOf, L_foo,
     L_pwd_padded}

\* what the last call was given, what it dispatched and what it returned
ExecuteCommand ==
    \E rawInput \in ShellInputs :
        \E r \in {executeCommand(rawInput,
                                 [fs |-> filesystem, sys |-> system, nextId |-> nextId,
                                  events |-> <<>>],
                                 terminal)} :
            /\ steps < MaxCmds
            /\ steps' = steps + 1
            /\ filesystem' = r.st.fs
            /\ system' = r.st.sys
            /\ nextId' = r.st.nextId
            /\ terminal' = r.term
            /\ last' = [op |-> "executeCommand", arg |-> rawInput,
                        res |-> IF r.thrown THEN "throw" ELSE "ok",
                        node |-> NULL, dest |-> NULL,
                        cmd |-> r.cmd, args |-> r.args, found |-> r.found,
                        events |-> r.st.events,
                        output |-> r.command.output, exitCode |-> r.command.exitCode]

NextShell == ExecuteCommand

SpecShell == Init /\ [][NextShell]_vars

(***************************************************************************)
(* Lines that start with an alias, hold an alias in another place, or      *)
(* differ from an alias in case only: at most MaxAliasCmds calls of        *)
(* executeCommand.                                                         *)
(***************************************************************************)
MaxAliasCmds == 2

L_ll_tmp == <<"l", "l", " ", "/", "t", "m", "p">>
L_ll_readme == <<"l", "l", " ", "R", "E", "A", "D", "M", "E", ".", "m", "d">>
L_ll == <<"l", "l">>
L_la == <<"l", "a">>
L_la_notes == <<" ", "l", "a", " ", " ", "n", "o", "t", "e", "s">>
L_c == <<"c">>
L_ll_ll == <<"l", "l", " ", "l", "l">>
L_echo_ll == <<"e", "c", "h", "o", " ", "l", "l">>
L_echo_cls_c == <<"e", "c", "h", "o", " ", "c", "l", "s", " ", "c">>
L_ls_la_word == <<"l", "s", " ", "l", "a">>
L_LL == <<"L", "L">>

AliasLines ==
    {L_ll_tmp, L_ll_readme, L_ll, L_la, L_la_notes, L_c, L_cls, L_ll_ll, L_echo_ll,
     L_echo_cls_c, L_ls_la_word, L_LL, L_pwd, L_cd_data}

ExecuteAliased ==
    \E rawInput \in AliasLines :
        \E r \in {executeCommand(rawInput,
                                 [fs |-> filesystem, sys |-> system, nextId |-> nextId,
                                  events |-> <<>>],
                                 terminal)} :
            /\ steps < MaxAliasCmds
            /\ steps' = steps + 1
            /\ filesystem' = r.st.fs
            /\ system' = r.st.sys
            /\ nextId' = r.st.nextId
            /\ terminal' = r.term
            /\ last' = [op |-> "executeCommand", arg |-> rawInput,
                        res |-> IF r.thrown THEN "throw" ELSE "ok",
                        node |-> NULL, dest |-> NULL,
                        cmd |-> r.cmd, args |-> r.args, found |-> r.found,
                        events |-> r.st.events,
                        output |-> r.command.output, exitCode |-> r.command.exitCode]

NextAlias == ExecuteAliased

SpecAlias == Init /\ [][NextAlias]_vars

(***************************************************************************)
(* Removals: rm with and without -r on files, on empty and non-empty       *)
(* directories, on the protected paths and next to them; at most MaxRmCmds *)
(* calls of executeCommand.                                                *)
(***************************************************************************)
MaxRmCmds == 2

L_rm_data == <<"r", "m", " ", "/", "d", "a", "t", "a">>
L_rm_r_data == <<"r", "m", " ", "-", "r", " ", "/", "d", "a", "t", "a">>
L_rm_rf_logs ==
    <<"r", "m", " ", "-", "r", "f", " ", "/", "d", "a", "t", "a", "/", "l", "o", "g", "s">>
L_rm_r_home == <<"r", "m", " ", "-", "r", " ", "/", "h", "o", "m", "e">>
L_touch_sys == <<"t", "o", "u", "c", "h", " ", "/", "s", "y", "s", "t", "e", "m", "/", "x">>
L_rm_sys_x == <<"r", "m", " ", "/", "s", "y", "s", "t", "e", "m", "/", "x">>
L_mkdir_system2 == <<"m", "k", "d", "i", "r", " ", "/", "s", "y", "s", "t", "e", "m", "2">>
L_rm_r_system2 == <<"r", "m", " ", "-", "r", " ", "/", "s", "y", "s", "t", "e", "m", "2">>
L_rm_nowhere == <<"r", "m", " ", "/", "n", "o", "w", "h", "e", "r", "e">>
L_rm_r_dot == <<"r", "m", " ", "-", "r", " ", ".">>
L_rm_two ==
    <<"r", "m", " ", "-", "r", " ", "/", "d", "a", "t", "a", "/", "l", "o", "g", "s", " ", "/",
      "n", "o", "w", "h", "e", "r", "e">>

RmLines ==
    {L_rm_data, L_rm_r_data, L_rm_rf_logs, L_rm_r_home, L_rm_home, L_rm_system,
     L_rm_rf_root, L_touch_sys, L_rm_sys_x, L_mkdir_system2, L_rm_r_system2,
     L_rm_readme, L_rm_nowhere, L_cd_data, L_rm_r_dot, L_rm_two}

ExecuteRemoval ==
    \E rawInput \in RmLines :
        \E r \in {executeCommand(rawInput,
                                 [fs |-> filesystem, sys |-> system, nextId |-> nextId,
                                  events |-> <<>>],
                                 terminal)} :
            /\ steps < MaxRmCmds
            /\ steps' = steps + 1
            /\ filesystem' = r.st.fs
            /\ system' = r.st.sys
            /\ nextId' = r.st.nextId
            /\ terminal' = r.term
            /\ last' = [op |-> "executeCommand", arg |-> rawInput,
                        res |-> IF r.thrown THEN "throw" ELSE "ok",
                        node |-> NULL, dest |-> NULL,
                        cmd |-> r.cmd, args |-> r.args, found |-> r.found,
                        events |-> r.st.events,
                        output |-> r.command.output, exitCode |-> r.command.exitCode]

NextRm == ExecuteRemoval

SpecRm == Init /\ [][NextRm]_vars

(***************************************************************************)
(* grep on a file of several lines: updateFileContent writes README.md     *)
(* with a text of at most MaxText characters, executeCommand runs grep; at *)
(* most MaxGrepOps calls.                                                  *)
(***************************************************************************)
MaxText == 3
MaxGrepOps == 2

RECURSIVE TextsUpTo(_)
\* the texts of at most n characters over a, B and the line break
TextsUpTo(n) ==
    IF n = 0 THEN {<<>>}
    ELSE TextsUpTo(n - 1) \cup
         {Append(t, c) : t \in {u \in TextsUpTo(n - 1) : Len(u) = n - 1},
                         c \in {"a", "B", NEWLINE[1]}}

L_grep_a == <<"g", "r", "e", "p", " ", "a", " ", "R", "E", "A", "D", "M", "E", ".", "m", "d">>
L_grep_b == <<"g", "r", "e", "p", " ", "b", " ", "R", "E", "A", "D", "M", "E", ".", "m", "d">>
L_grep_ab ==
    <<"g", "r", "e", "p", " ", "a", "b", " ", "R", "E", "A", "D", "M", "E", ".", "m", "d">>
L_grep_paren ==
    <<"g", "r", "e", "p", " ", "(", " ", "R", "E", "A", "D", "M", "E", ".", "m", "d">>
L_grep_nowhere == <<"g", "r", "e", "p", " ", "a", " ", "n", "o", "w", "h", "e", "r", "e">>
L_grep_bare == <<"g", "r", "e", "p", " ", "a">>

GrepLines ==
    {L_grep_a, L_grep_b, L_grep_ab, L_grep_paren, L_grep_nowhere, L_grep_bare}

WriteReadme ==
    \E content \in TextsUpTo(MaxText) :
        LET out == updateFileContent(filesystem, N_README_md, content)
        IN  /\ steps < MaxGrepOps
            /\ steps' = steps + 1
            /\ filesystem' = out.fs
            /\ last' = Record("updateFileContent", content, out)
            /\ UNCHANGED <<nextId, system, terminal>>

ExecuteGrep ==
    \E rawInput \in GrepLines :
        \E r \in {executeCommand(rawInput,
                                 [fs |-> filesystem, sys |-> system, nextId |-> nextId,
                                  events |-> <<>>],
                                 terminal)} :
            /\ steps < MaxGrepOps
            /\ steps' = steps + 1
            /\ filesystem' = r.st.fs
            /\ system' = r.st.sys
            /\ nextId' = r.st.nextId
            /\ terminal' = r.term
            /\ last' = [op |-> "executeCommand", arg |-> rawInput,
                        res |-> IF r.thrown THEN "throw" ELSE "ok",
                        node |-> NULL, dest |-> NULL,
                        cmd |-> r.cmd, args |-> r.args, found |-> r.found,
                        events |-> r.st.events,
                        output |-> r.command.output, exitCode |-> r.command.exitCode]

NextGrep ==
    \/ WriteReadme
    \/ ExecuteGrep

SpecGrep == Init /\ [][NextGrep]_vars

(***************************************************************************)
(* The shell session: executeCommand, navigateHistory, setCurrentInput,    *)
(* clearHistory and clearScreen in any order, at most MaxTermOps calls.    *)
(* historyIndex is the index of JavaScript (the first entry has index 0).  *)
(***************************************************************************)
MaxTermOps == 5

\* commandHistory[newIndex] || ''
EntryAt(commandHistory, index) ==
    IF index + 1 \in DOMAIN commandHistory THEN commandHistory[index + 1] ELSE <<>>

MaxOf(a, b) == IF a > b THEN a ELSE b
MinOf(a, b) == IF a < b THEN a ELSE b

\* the selection of `up` without the floor at the oldest entry
StepUpUnbounded(historyIndex) == historyIndex - 1

\* Math.max(0, historyIndex - 1)
StepUp(historyIndex) == MaxOf(0, historyIndex - 1)

\* navigateHistory(direction): the session it leaves and the text it returns
navigateHistory(term, direction) ==
    LET n == Len(term.commandHistory)
        historyIndex == term.historyIndex
        newIndex == IF direction = "up"
                    THEN IF historyIndex = -1 THEN n - 1 ELSE StepUp(historyIndex)
                    ELSE IF historyIndex = -1 THEN -1 ELSE MinOf(n - 1, historyIndex + 1)
        newInput == EntryAt(term.commandHistory, newIndex)
    IN  IF n = 0 THEN [term |-> term, returned |-> term.currentInput]
        ELSE IF direction = "down" /\ historyIndex = n - 1
        THEN [term |-> [term EXCEPT !.historyIndex = -1, !.currentInput = <<>>],
              returned |-> <<>>]
        ELSE [term |-> [term EXCEPT !.historyIndex = newIndex, !.currentInput = newInput],
              returned |-> newInput]

setCurrentInput(term, input) ==
    [term EXCEPT !.currentInput = input, !.historyIndex = -1]

clearHistory(term) == [term EXCEPT !.history = <<>>, !.commandHistory = <<>>]

clearScreen(term) == [term EXCEPT !.history = <<>>]

\* what a call on the session was given and what it returned
SessionRecord(op, direction, returned) ==
    [op |-> op, arg |-> <<>>, res |-> "ok", node |-> NULL, dest |-> NULL,
     direction |-> direction, returned |-> returned]

TermLines == {L_pwd, L_foo, L_empty}

DraftTexts == {<<>>, L_cls}

ExecuteLine ==
    \E rawInput \in TermLines :
        \E r \in {executeCommand(rawInput,
                                 [fs |-> filesystem, sys |-> system, nextId |-> nextId,
                                  events |-> <<>>],
                                 terminal)} :
            /\ steps < MaxTermOps
            /\ steps' = steps + 1
            /\ filesystem' = r.st.fs
            /\ system' = r.st.sys
            /\ nextId' = r.st.nextId
            /\ terminal' = r.term
            /\ last' = [op |-> "executeCommand", arg |-> rawInput,
                        res |-> IF r.thrown THEN "throw" ELSE "ok",
                        node |-> NULL, dest |-> NULL,
                        cmd |-> r.cmd, args |-> r.args, found |-> r.found,
                        events |-> r.st.events,
                        output |-> r.command.output, exitCode |-> r.command.exitCode]

NavigateHistory ==
    \E direction \in {"up", "down"} :
        \E r \in {navigateHistory(terminal, direction)} :
            /\ steps < MaxTermOps
            /\ steps' = steps + 1
            /\ terminal' = r.term
            /\ last' = SessionRecord("navigateHistory", direction, r.returned)
            /\ UNCHANGED <<filesystem, nextId, system>>

SetCurrentInput ==
    \E input \in DraftTexts :
        /\ steps < MaxTermOps
        /\ steps' = steps + 1
        /\ terminal' = setCurrentInput(terminal, input)
        /\ last' = SessionRecord("setCurrentInput", "none", <<>>)
        /\ UNCHANGED <<filesystem, nextId, system>>

ClearHistory ==
    /\ steps < MaxTermOps
    /\ steps' = steps + 1
    /\ terminal' = clearHistory(terminal)
    /\ last' = SessionRecord("clearHistory", "none", <<>>)
    /\ UNCHANGED <<filesystem, nextId, system>>

ClearScreen ==
    /\ steps < MaxTermOps
    /\ steps' = steps + 1
    /\ terminal' = clearScreen(terminal)
    /\ last' = SessionRecord("clearScreen", "none", <<>>)
    /\ UNCHANGED <<filesystem, nextId, system>>

NextSession ==
    \/ ExecuteLine
    \/ NavigateHistory
    \/ SetCurrentInput
    \/ ClearHistory
    \/ ClearScreen

SpecSession == Init /\ [][NextSession]_vars

(***************************************************************************)
(* The shell next to the other callers of the stores: executeCommand from  *)
(* the terminal window, setCurrentDirectory as the file manager calls it,  *)
(* hardReset, createSnapshot and restoreSnapshot of the system store; at   *)
(* most MaxOps calls that count.  resetFilesystem builds the seed tree     *)
(* with new identifiers; nothing outside the tree holds an identifier, so  *)
(* the new tree is written with the identifiers of the first one.          *)
(***************************************************************************)
resetFilesystem(fs) == createInitialFilesystem

hardReset(st) ==
    [st EXCEPT !.fs = resetFilesystem(@),
               !.sys = [@ EXCEPT !.machine_state = "running",
                                 !.integrity = 100,
                                 !.snapshots = <<>>]]

DeskLines == {L_pwd, L_cd_data, L_cd_nowhere, L_rm_home}

ExecuteAtDesk ==
    \E rawInput \in DeskLines :
        \E r \in {executeCommand(rawInput,
                                 [fs |-> filesystem, sys |-> system, nextId |-> nextId,
                                  events |-> <<>>],
                                 terminal)} :
            /\ steps < MaxOps
            /\ steps' = steps + 1
            /\ filesystem' = r.st.fs
            /\ system' = r.st.sys
            /\ nextId' = r.st.nextId
            /\ terminal' = r.term
            /\ last' = [op |-> "executeCommand", arg |-> rawInput,
                        res |-> IF r.thrown THEN "throw" ELSE "ok",
                        node |-> NULL, dest |-> NULL,
                        cmd |-> r.cmd, args |-> r.args, found |-> r.found,
                        events |-> r.st.events,
                        output |-> r.command.output, exitCode |-> r.command.exitCode,
                        workingDirectory |-> r.command.workingDirectory]

HardReset ==
    \E r \in {hardReset([fs |-> filesystem, sys |-> system])} :
        /\ steps < MaxOps
        /\ steps' = steps + 1
        /\ filesystem' = r.fs
        /\ system' = r.sys
        /\ last' = [op |-> "hardReset", arg |-> <<>>, res |-> "ok",
                    node |-> NULL, dest |-> NULL]
        /\ UNCHANGED <<nextId, terminal>>

NextDesk ==
    \/ ExecuteAtDesk
    \/ SetCurrentDirectory
    \/ HardReset
    \/ CreateSnapshot
    \/ RestoreSnapshot

SpecDesk == Init /\ [][NextDesk]_vars

(***************************************************************************)
(* Vocabulary of the claims.                                               *)
(***************************************************************************)
Nodes == filesystem.nodes
Ids == DOMAIN filesystem.nodes
Containers == {c \in Ids : Nodes[c].type = "directory"}

Count(seq, x) == Cardinality({i \in DOMAIN seq : seq[i] = x})

\* the step just taken was a call of op that returned res
Called(op, res) == last'.op = op /\ last'.res = res

(***************************************************************************)
(* C1: referential integrity: an id is in a Container's children exactly   *)
(* when its node exists and has that Container as parent; no id occurs     *)
(* twice in one children list or under two parents.                        *)
(***************************************************************************)
ReferentialIntegrity ==
    /\ \A c \in Containers :
          /\ \A x \in Range(Nodes[c].children) : x \in Ids /\ Nodes[x].parent = c
          /\ \A x \in Ids : Nodes[x].parent = c => x \in Range(Nodes[c].children)
          /\ \A x \in Range(Nodes[c].children) : Count(Nodes[c].children, x) = 1
    /\ \A c, d \in Containers :
          c # d => Range(Nodes[c].children) \cap Range(Nodes[d].children) = {}

(***************************************************************************)
(* C2: without moves, the root's path is "/" and every other node's path   *)
(* is its parent's path joined with "/" and its own name.                  *)
(***************************************************************************)
PathOf(nodes, x) ==
    IF nodes[x].parent = NULL THEN SLASH
    ELSE JoinPath(nodes[nodes[x].parent].path, nodes[x].name)

\* C2: every cached path is the parent's cached path joined with the name
CachedPathsConsistent ==
    \A x \in Ids :
        (Nodes[x].parent = NULL \/ Nodes[x].parent \in Ids) => Nodes[x].path = PathOf(Nodes, x)

(***************************************************************************)
(* C4: no two nodes with the same parent have the same name.               *)
(***************************************************************************)
SiblingNamesUnique ==
    \A x, y \in Ids :
        (x # y /\ Nodes[x].parent = Nodes[y].parent) => Nodes[x].name # Nodes[y].name

(***************************************************************************)
(* C7: exactly one node has no parent, it is the node the root id names,   *)
(* deleteNode never removes it and moveNode never relocates it, and every  *)
(* other node's parent is an existing Container.                           *)
(***************************************************************************)
SingleRoot ==
    /\ {x \in Ids : Nodes[x].parent = NULL} = {filesystem.root}
    /\ filesystem.root = ROOT_ID
    /\ \A x \in Ids \ {filesystem.root} : Nodes[x].parent \in Containers

RECURSIVE Closure(_, _)
\* the ids reachable from S through children lists
Closure(nodes, S) ==
    LET T == S \cup {k \in DOMAIN nodes :
                        \E q \in S : q \in DOMAIN nodes /\ k \in Range(nodes[q].children)}
    IN  IF T = S THEN S ELSE Closure(nodes, T)

\* a node and its descendants
Subtree(nodes, x) == Closure(nodes, {x})

(***************************************************************************)
(* C3: a successful moveNode makes the destination the source's parent,    *)
(* takes the source out of the old parent's children and appends it last   *)
(* to the destination's, sets the source's path to the destination's       *)
(* cached path joined with the source's name, and recomputes the path of   *)
(* every descendant of the source.                                         *)
(***************************************************************************)
MoveNodeEffect ==
    [][Called("moveNode", "ok") =>
        LET src == last'.node
            dst == last'.dest
            old == Nodes[src].parent
            post == filesystem'.nodes
        IN  /\ post[src].parent = dst
            /\ old # dst => src \notin Range(post[old].children)
            /\ post[dst].children = Append(Without(Nodes[dst].children, src), src)
            /\ post[src].path = JoinPath(Nodes[dst].path, Nodes[src].name)
            /\ \A x \in Subtree(post, src) \ {src} : post[x].path = PathOf(post, x)]_vars

(***************************************************************************)
(* C5: a readOnly node is never removed and its name, parent, path and     *)
(* content never change; deleteNode, renameNode, moveNode and              *)
(* updateFileContent aimed at it fail and leave the tree unchanged.        *)
(***************************************************************************)
ReadOnlyProtected ==
    [][\A x \in Ids : Nodes[x].isReadOnly =>
        /\ x \in DOMAIN filesystem'.nodes
        /\ filesystem'.nodes[x].name = Nodes[x].name
        /\ filesystem'.nodes[x].parent = Nodes[x].parent
        /\ filesystem'.nodes[x].path = Nodes[x].path
        /\ filesystem'.nodes[x].content = Nodes[x].content
        /\ (/\ last'.op \in {"deleteNode", "renameNode", "moveNode", "updateFileContent"}
            /\ last'.node = x)
           => (last'.res = "fail" /\ filesystem' = filesystem)]_vars

(***************************************************************************)
(* C6: a call that reports failure leaves the filesystem as it was, and a  *)
(* call that reports success has applied its whole effect.                 *)
(***************************************************************************)
FailureChangesNothing == last'.res = "fail" => filesystem' = filesystem

SuccessApplied ==
    LET post == filesystem'.nodes
        n == last'.node
        d == last'.dest
    IN  /\ Called("setCurrentDirectory", "ok") => filesystem'.currentDirectory = n
        /\ (Called("createFile", "ok") \/ Called("createDirectory", "ok")) =>
              /\ n \notin Ids /\ n \in DOMAIN post
              /\ post[n].parent = d /\ post[n].name = last'.arg
              /\ post[d].children = Append(Nodes[d].children, n)
        /\ Called("deleteNode", "ok") =>
              /\ Subtree(Nodes, n) \cap DOMAIN post = {}
              /\ n \notin Range(post[d].children)
        /\ Called("renameNode", "ok") => post[n].name = last'.arg
        /\ Called("moveNode", "ok") =>
              /\ post[n].parent = d
              /\ n \in Range(post[d].children)
              /\ n \notin Range(post[Nodes[n].parent].children) \/ Nodes[n].parent = d
        /\ Called("updateFileContent", "ok") =>
              post[n].content = last'.arg /\ post[n].size = Len(last'.arg)

\* C6: every step is a call that either failed and changed nothing or succeeded
\* and applied its whole effect
AllOrNothing == [][FailureChangesNothing /\ SuccessApplied]_vars

(***************************************************************************)
(* C10: deleteNode on a Container with N descendants removes exactly those *)
(* N+1 ids from the mapping, removes the Container's id from its former    *)
(* parent's children exactly once, and changes no other node nor the order *)
(* of the remaining siblings.                                              *)
(***************************************************************************)
DeleteContainerFrame ==
    LET n == last'.node
        p == last'.dest
        post == filesystem'.nodes
    IN  /\ DOMAIN post = Ids \ Subtree(Nodes, n)
        /\ post[p].children = Without(Nodes[p].children, n)
        /\ post[p] = [Nodes[p] EXCEPT !.children = post[p].children]
        /\ \A k \in DOMAIN post \ {p} : post[k] = Nodes[k]
        /\ filesystem'.root = filesystem.root
        /\ filesystem'.currentDirectory = filesystem.currentDirectory

\* C10: a successful deleteNode of a Container removes its subtree and nothing
\* else, and the former parent's children list loses exactly one entry
DeleteContainerExact ==
    [][(Called("deleteNode", "ok") /\ Nodes[last'.node].type = "directory") =>
        /\ DeleteContainerFrame
        /\ Len(filesystem'.nodes[last'.dest].children)
             = Len(Nodes[last'.dest].children) - 1]_vars

(***************************************************************************)
(* C11: a successful renameNode changes `name` on the renamed node only,   *)
(* replaces the old path prefix of the subtree by the new one in the path  *)
(* of the node and of every descendant, leaves id, parent, children and    *)
(* content of every node as they were, and changes no node outside the     *)
(* renamed subtree.                                                        *)
(***************************************************************************)
\* s with its prefix of length n replaced by new
Reprefix(s, n, new) == new \o SubSeq(s, n + 1, Len(s))

RenameSubtreeFrame ==
    LET n == last'.node
        post == filesystem'.nodes
        oldBasePath == Nodes[n].path
        newBasePath == post[n].path
    IN  /\ DOMAIN post = Ids
        /\ post[n].name = last'.arg
        /\ \A x \in Subtree(Nodes, n) :
              /\ StartsWith(Nodes[x].path, oldBasePath)
              /\ post[x].path = Reprefix(Nodes[x].path, Len(oldBasePath), newBasePath)
              /\ x # n => post[x].name = Nodes[x].name
              /\ post[x] = [Nodes[x] EXCEPT !.path = post[x].path, !.name = post[x].name]
        /\ \A x \in Ids \ Subtree(Nodes, n) : post[x] = Nodes[x]
        /\ filesystem'.root = filesystem.root
        /\ filesystem'.currentDirectory = filesystem.currentDirectory

\* C11: a successful renameNode rewrites the name of the renamed node and the
\* path prefix of its whole subtree, and nothing else
RenameFrame == [][Called("renameNode", "ok") => RenameSubtreeFrame]_vars

(***************************************************************************)
(* C12: from a tree, importing the text exportFilesystem has just returned *)
(* succeeds and leaves a tree with the same node ids in which id, name,    *)
(* kind, path, parent, children order and content of every node, the root  *)
(* id and the current-directory id are those of the tree exported.         *)
(***************************************************************************)
Imported == last'.op \in {"importFilesystem", "restoreSnapshot"}

SameTree(pre, post) ==
    /\ IsTree(post)
    /\ DOMAIN post.nodes = DOMAIN pre.nodes
    /\ \A k \in DOMAIN pre.nodes :
          /\ post.nodes[k].id = pre.nodes[k].id
          /\ post.nodes[k].name = pre.nodes[k].name
          /\ post.nodes[k].type = pre.nodes[k].type
          /\ post.nodes[k].path = pre.nodes[k].path
          /\ post.nodes[k].parent = pre.nodes[k].parent
          /\ post.nodes[k].children = pre.nodes[k].children
          /\ post.nodes[k].content = pre.nodes[k].content
    /\ post.root = pre.root
    /\ post.currentDirectory = pre.currentDirectory

\* C12: export followed at once by import of the text returned succeeds and
\* gives back the tree exported
SnapshotRoundTrip ==
    [][(Imported /\ IsTree(filesystem) /\ last'.fresh) =>
        (last'.res = "ok" /\ SameTree(filesystem, filesystem'))]_vars

\* a tree that is not the seed tree has been exported and imported at once
SnapshotRoundTripWitness ==
    /\ last.op = "restoreSnapshot" /\ last.res = "ok" /\ last.fresh
    /\ IsTree(filesystem)
    /\ filesystem # createInitialFilesystem

(***************************************************************************)
(* C13: importFilesystem given a text that is no serialized tree returns   *)
(* failure and leaves the filesystem as it was, and the store never holds  *)
(* a filesystem value without node mapping, root id or current-directory   *)
(* id.                                                                     *)
(***************************************************************************)
ImportRejects ==
    (Imported /\ ~last'.valid) => (last'.res = "fail" /\ filesystem' = filesystem)

\* C13: an import of a text that is no tree fails and changes nothing; the
\* filesystem value is a tree in every state
ImportFailureSafe == []IsTree(filesystem) /\ [][ImportRejects]_vars

(***************************************************************************)
(* C15: after a successful createFile or createDirectory the new id is the *)
(* last of the parent's children, getNodeByPath of the parent's path, "/"  *)
(* and the name returns the new node, readFile of that path returns the    *)
(* content and the size is the content's length; the call fails exactly    *)
(* when the parent path names no node, names a file, or a node exists at   *)
(* the new path.                                                           *)
(***************************************************************************)
Created(res) == Called("createFile", res) \/ Called("createDirectory", res)

CreateReadBack ==
    LET n == last'.node
        d == last'.dest
        post == filesystem'.nodes
        newPath == Nodes[d].path \o SLASH \o last'.arg
    IN  /\ n \in DOMAIN post
        /\ post[d].children # <<>>
        /\ post[d].children[Len(post[d].children)] = n
        /\ getNodeByPath(filesystem', newPath) = n
        /\ post[n].type = "file" =>
              readFile(filesystem', newPath) = [found |-> TRUE, content |-> post[n].content]
        /\ post[n].size = Len(post[n].content)

CreateRejected ==
    LET d == last'.dest
    IN  \/ d = NULL
        \/ Nodes[d].type # "directory"
        \/ \E x \in Ids : Nodes[x].path = JoinPath(Nodes[d].path, last'.arg)

\* C15: a successful create can be read back through the path it was created
\* at, and a create fails exactly in the three cases named
CreateThenRead ==
    [][/\ Created("ok") => (CreateReadBack /\ ~CreateRejected)
       /\ Created("fail") => CreateRejected]_vars

(***************************************************************************)
(* The shell.  Executed(cmd) is a step of executeCommand that dispatched   *)
(* the handler of cmd and returned; LineArgs is the argument list it       *)
(* passed, computed from the raw input as executeCommand computes it.      *)
(***************************************************************************)
Ran == last'.op = "executeCommand"

Executed(cmd) ==
    Ran /\ last'.res = "ok" /\ last'.found = "handler" /\ last'.cmd = cmd

LineArgs(rawInput) ==
    LET parts == Tokenize(ExpandAlias(Trim(rawInput)).text)
    IN  [i \in 1..(Len(parts) - 1) |-> StripQuotes(parts[i + 1])]

Operands(rawInput) ==
    LET targets == NonFlags(LineArgs(rawInput))
    IN  {targets[i] : i \in DOMAIN targets}

NodeAt(fs, target) == getNodeByPath(fs, target)

ContainerAt(fs, target) ==
    /\ NodeAt(fs, target) # NULL
    /\ fs.nodes[NodeAt(fs, target)].type = "directory"

NeverThrows == Ran => last'.res = "ok"

RmSurfaces ==
    (Executed(K_rm) /\ last'.exitCode = 0) =>
        \A t \in Operands(last'.arg) : NodeAt(filesystem', t) = NULL

MkdirSurfaces ==
    (Executed(K_mkdir) /\ last'.exitCode = 0) =>
        \A t \in Operands(last'.arg) : ContainerAt(filesystem', t)

TouchSurfaces ==
    (Executed(K_touch) /\ last'.exitCode = 0) =>
        NodeAt(filesystem', LineArgs(last'.arg)[1]) # NULL

NonZeroHasMessage ==
    (Ran /\ last'.res = "ok" /\ last'.found = "handler" /\ last'.exitCode # 0) =>
        last'.output # <<>>

\* C16: no call of executeCommand throws; rm that exits 0 leaves no node at
\* its targets, mkdir that exits 0 leaves a Container at its targets, touch
\* that exits 0 leaves a node at its target, and a handler's non-zero exit
\* code comes with a non-empty message
FailuresSurface ==
    [][NeverThrows /\ RmSurfaces /\ MkdirSurfaces /\ TouchSurfaces
       /\ NonZeroHasMessage]_vars

(***************************************************************************)
(* The full input line rm -rf /.                                           *)
(***************************************************************************)
RanLine(line) == Ran /\ last'.arg = line

IntegrityReported(delta) ==
    /\ system'.integrity = updateIntegrity(system, delta).integrity
    /\ system'.machine_state = updateIntegrity(system, delta).machine_state

CatastropheReported == RanLine(L_rm_rf_root) => IntegrityReported(-100)

CatastropheHarmless == RanLine(L_rm_rf_root) => filesystem' = filesystem

\* C17: executing the input line rm -rf / reports the integrity delta -100
\* and leaves the filesystem tree unchanged
CatastrophicCommand == [][CatastropheReported /\ CatastropheHarmless]_vars

(***************************************************************************)
(* Control signals.  The screen is the list history of command records;    *)
(* the exit request is read by the caller from the returned record, whose  *)
(* only trace of the command exit is its output.                           *)
(***************************************************************************)
ReturnedRecord == Ran /\ last'.res = "ok"

ScreenCleared == ReturnedRecord /\ terminal'.history = <<>>

ExitSignalled == ReturnedRecord /\ last'.output = EXIT_SENTINEL

RecordedOnScreen ==
    /\ Len(terminal'.history) = Len(terminal.history) + 1
    /\ SubSeq(terminal'.history, 1, Len(terminal.history)) = terminal.history
    /\ terminal'.history[Len(terminal'.history)].input = last'.arg
    /\ terminal'.history[Len(terminal'.history)].output = last'.output

ClearOnlyByClear == ScreenCleared => Executed(K_clear)

ExitOnlyByExit == ExitSignalled => Executed(K_exit)

OrdinaryOutputRecorded ==
    (ReturnedRecord /\ ~Executed(K_clear)) => RecordedOnScreen

\* C18: executeCommand clears the screen only when the command dispatched is
\* clear, signals an exit only when the command dispatched is exit, and
\* records the output of every other command on the screen
ControlSignalsDistinct ==
    [][ClearOnlyByClear /\ ExitOnlyByExit /\ OrdinaryOutputRecorded]_vars

(***************************************************************************)
(* Unknown commands.  FirstToken is the first token of a line after the    *)
(* expansion of the four aliases the store defines, in lower case; the     *)
(* built-in names are the keys of the commands table.                      *)
(***************************************************************************)
DefinedAliases == {A_ll, A_la, A_cls, A_c}

FirstToken(rawInput) ==
    LET input == Trim(rawInput)
        firstWord == FirstWord(input)
        expanded == IF firstWord \in DefinedAliases
                    THEN Replace(input, firstWord, AliasLookup(firstWord).text)
                    ELSE input
        parts == Tokenize(expanded)
    IN  IF parts = <<>> THEN <<>> ELSE ToLowerCase(parts[1])

UnknownLine(rawInput) ==
    FirstToken(rawInput) # <<>> /\ FirstToken(rawInput) \notin CommandNames

NotFoundResult ==
    /\ last'.res = "ok"
    /\ last'.exitCode = 127
    /\ last'.output = FirstToken(last'.arg) \o T_not_found
    /\ last'.found = "undefined"
    /\ filesystem' = filesystem

UnknownIsNotFound == (Ran /\ UnknownLine(last'.arg)) => NotFoundResult

ExitCodeConvention == ReturnedRecord => last'.exitCode \in {0, 1, 2, 127}

\* C19: a line whose first token is no built-in command name, the names
\* constructor and __proto__ included, returns exit code 127 and the output
\* "<cmd>: command not found" without running a handler, and every exit code
\* returned is one of 0, 1, 2, 127
UnknownCommands == [][UnknownIsNotFound /\ ExitCodeConvention]_vars

(***************************************************************************)
(* Command history.                                                        *)
(***************************************************************************)
Blank(rawInput) == Trim(rawInput) = <<>>

Filtered(history, rawInput) == SelectSeq(history, LAMBDA c : c # rawInput)

HistoryWellFormed ==
    LET h == terminal.commandHistory
    IN  /\ \A i, j \in DOMAIN h : h[i] = h[j] => i = j
        /\ \A i \in DOMAIN h : ~Blank(h[i])

MovedToEnd ==
    (Ran /\ ~Blank(last'.arg)) =>
        terminal'.commandHistory =
            Append(Filtered(terminal.commandHistory, last'.arg), last'.arg)

BlankIgnored ==
    (Ran /\ Blank(last'.arg)) =>
        /\ last'.res = "ok"
        /\ last'.exitCode = 0
        /\ last'.output = <<>>
        /\ terminal'.commandHistory = terminal.commandHistory

\* C20: the command history never holds two equal strings nor a blank one;
\* executing a non-blank input makes it the last entry, removes its earlier
\* occurrence and keeps the order of the others; executing a blank input
\* returns exit code 0 and empty output and leaves the history as it was
HistoryBookkeeping == []HistoryWellFormed /\ [][MovedToEnd /\ BlankIgnored]_vars

(***************************************************************************)
(* setCurrentDirectory and cd, applied in every state reached to every     *)
(* path of PathArgs and to the cached path of every Container.  A path     *)
(* names the node that getNodeByPath returns for it.                       *)
(***************************************************************************)
Here == [fs |-> filesystem, sys |-> system, nextId |-> nextId, events |-> <<>>]

NamesContainer(d) == ContainerAt(filesystem, d)

CdSucceeds(d) ==
    LET out == setCurrentDirectory(filesystem, d)
    IN  /\ out.res = "ok"
        /\ out.fs.currentDirectory = NodeAt(filesystem, d)
        /\ cmd_pwd(<<>>, [Here EXCEPT !.fs = out.fs]).output
               = Nodes[NodeAt(filesystem, d)].path

CdFails(d) ==
    LET out == setCurrentDirectory(filesystem, d)
        cd == cmd_cd(<<d>>, Here)
    IN  /\ out.res = "fail"
        /\ out.fs = filesystem
        /\ cd.exitCode = 1
        /\ cd.output # <<>>
        /\ cd.st.fs.currentDirectory = filesystem.currentDirectory

CdByPath == \A d \in PathArgs : IF NamesContainer(d) THEN CdSucceeds(d) ELSE CdFails(d)

CdByContainer ==
    \A x \in Containers :
        LET out == setCurrentDirectory(filesystem, Nodes[x].path)
        IN  /\ out.res = "ok"
            /\ cmd_pwd(<<>>, [Here EXCEPT !.fs = out.fs]).output = Nodes[x].path

\* C14: setCurrentDirectory of a path that names a Container succeeds and pwd
\* then returns that Container's path, for the cached path of every Container
\* too; for a path that names no node or a Leaf it fails, cd returns exit code
\* 1 with a message, and the current directory stays
ChangeDirectory == CdByPath /\ CdByContainer

(***************************************************************************)
(* History navigation.  n is the length of the command history and i the   *)
(* cursor before the call; entry k of JavaScript is commandHistory[k + 1]. *)
(***************************************************************************)
Navigated(direction) ==
    last'.op = "navigateHistory" /\ last'.direction = direction

Selected(index) ==
    /\ terminal'.historyIndex = index
    /\ last'.returned = terminal.commandHistory[index + 1]

UpFromNone ==
    (Navigated("up") /\ terminal.commandHistory # <<>> /\ terminal.historyIndex = -1)
        => Selected(Len(terminal.commandHistory) - 1)

UpFromIndex ==
    (Navigated("up") /\ terminal.commandHistory # <<>> /\ terminal.historyIndex >= 0)
        => Selected(IF terminal.historyIndex = 0 THEN 0 ELSE terminal.historyIndex - 1)

DownInside ==
    (/\ Navigated("down")
     /\ terminal.historyIndex >= 0
     /\ terminal.historyIndex < Len(terminal.commandHistory) - 1)
        => Selected(terminal.historyIndex + 1)

DownAtEnd ==
    (/\ Navigated("down")
     /\ terminal.commandHistory # <<>>
     /\ terminal.historyIndex = Len(terminal.commandHistory) - 1)
        => (terminal'.historyIndex = -1 /\ last'.returned = <<>>)

NavigateEmpty ==
    (last'.op = "navigateHistory" /\ terminal.commandHistory = <<>>)
        => (last'.returned = terminal.currentInput /\ terminal' = terminal)

\* C21: with a non-empty history, up without a cursor selects and returns the
\* newest entry, up at index i selects max(0, i - 1), down at i < n - 1 selects
\* i + 1, down at n - 1 clears the cursor and returns the empty string; with
\* an empty history up and down return the draft and change nothing
HistoryNavigation ==
    [][UpFromNone /\ UpFromIndex /\ DownInside /\ DownAtEnd /\ NavigateEmpty]_vars

\* down has moved the cursor from the oldest of two entries to the newest
HistoryNavigationWitness ==
    /\ last.op = "navigateHistory"
    /\ last.direction = "down"
    /\ Len(terminal.commandHistory) = 2
    /\ terminal.historyIndex = 1
    /\ last.returned = terminal.commandHistory[2]

(***************************************************************************)
(* Alias expansion.  AliasTokens and RestTokens are the tokens of the      *)
(* alias text and of what follows the first word of the line.              *)
(***************************************************************************)
Stripped(tokens) == [i \in DOMAIN tokens |-> StripQuotes(tokens[i])]

AliasTokens(rawInput) == Tokenize(AliasLookup(FirstWord(Trim(rawInput))).text)

RestTokens(rawInput) ==
    LET input == Trim(rawInput)
    IN  Tokenize(SubSeq(input, Len(FirstWord(input)) + 1, Len(input)))

StartsWithAlias(rawInput) == FirstWord(Trim(rawInput)) \in DefinedAliases

ExpandedOnce ==
    (Ran /\ StartsWithAlias(last'.arg)) =>
        /\ last'.res = "ok"
        /\ last'.found = "handler"
        /\ last'.cmd = ToLowerCase(AliasTokens(last'.arg)[1])
        /\ last'.args = Stripped(Tail(AliasTokens(last'.arg)) \o RestTokens(last'.arg))

LaterTokensKept ==
    (Ran /\ last'.res = "ok" /\ Trim(last'.arg) # <<>>) =>
        LET rest == Stripped(RestTokens(last'.arg))
            args == last'.args
        IN  /\ Len(args) >= Len(rest)
            /\ SubSeq(args, Len(args) - Len(rest) + 1, Len(args)) = rest

\* C22: a line whose first token is an alias key dispatches the first token of
\* the alias text with the alias's remaining tokens and then the line's
\* remaining tokens as arguments, expanded once; the tokens after the first
\* reach the handler as they are, alias keys among them
AliasExpansion == [][ExpandedOnce /\ LaterTokensKept]_vars

\* ll /tmp has dispatched ls with the arguments -la and /tmp
AliasExpansionWitness ==
    /\ last.op = "executeCommand"
    /\ last.arg = L_ll_tmp
    /\ last.cmd = K_ls
    /\ Len(last.args) = 2
    /\ last.args[1] = F_la

(***************************************************************************)
(* Deletions by rm and the integrity reports that go with them.            *)
(***************************************************************************)
\* the node lies at or below /system, or is /home/user
ProtectedPath(path) ==
    \/ path = P_system
    \/ StartsWith(path, P_system \o SLASH)
    \/ path = HOME_USER

\* the nodes that a step has removed from the node mapping
Removed == DOMAIN filesystem.nodes \ DOMAIN filesystem'.nodes

\* position i of the step's calls is updateIntegrity(-25)
ReportAt(i) ==
    /\ i \in DOMAIN last'.events
    /\ last'.events[i].call = "updateIntegrity"
    /\ last'.events[i].delta = -25

\* position j of the step's calls is a deleteNode whose target is id or an
\* ancestor of id
RemovalAt(j, id) ==
    /\ j \in DOMAIN last'.events
    /\ last'.events[j].call = "deleteNode"
    /\ id \in Subtree(filesystem.nodes, last'.events[j].node)

\* a protected node named by an operand of rm and removed was reported just
\* before the deleteNode call that removed it
TargetReported ==
    Executed(K_rm) =>
        \A j \in DOMAIN last'.events :
            LET id == last'.events[j].node
            IN  (/\ last'.events[j].call = "deleteNode"
                 /\ id \in Removed
                 /\ ProtectedPath(filesystem.nodes[id].path))
                    => ReportAt(j - 1)

\* every protected node that rm removed, operand or not, was reported before
\* the deleteNode call that removed it
RemovedReported ==
    Executed(K_rm) =>
        \A id \in Removed :
            ProtectedPath(filesystem.nodes[id].path) =>
                \E j \in DOMAIN last'.events :
                    /\ RemovalAt(j, id)
                    /\ \E i \in 1..(j - 1) : ReportAt(i)

\* C23: whenever rm removes a node at or below /system, or the node
\* /home/user, updateIntegrity(-25) is called, and it is called before the
\* node leaves the tree
ProtectedDeletionReported == [][RemovedReported]_vars

(***************************************************************************)
(* rm on a directory, with and without the recursive flag.                 *)
(***************************************************************************)
\* the step ran rm with the one operand target; recursive tells whether -r
\* or -rf was among the arguments
RmOne(target, recursive) ==
    /\ Executed(K_rm)
    /\ NonFlags(last'.args) = <<target>>
    /\ recursive = (Includes(last'.args, F_r) \/ Includes(last'.args, F_rf))

\* the operand names a directory with at least one child before the step
NonEmptyDirectory(target) ==
    /\ ContainerAt(filesystem, target)
    /\ filesystem.nodes[NodeAt(filesystem, target)].children # <<>>

\* the directory is neither readOnly nor the root
Removable(target) ==
    /\ ~filesystem.nodes[NodeAt(filesystem, target)].isReadOnly
    /\ filesystem.nodes[NodeAt(filesystem, target)].parent # NULL

RmRefused ==
    \A target \in Operands(last'.arg) :
        (RmOne(target, FALSE) /\ NonEmptyDirectory(target)) =>
            /\ last'.exitCode = 1
            /\ filesystem' = filesystem

RmRecursive ==
    \A target \in Operands(last'.arg) :
        (RmOne(target, TRUE) /\ NonEmptyDirectory(target) /\ Removable(target)) =>
            /\ last'.exitCode = 0
            /\ Subtree(filesystem.nodes, NodeAt(filesystem, target))
                   \cap DOMAIN filesystem'.nodes = {}

\* C24: rm of a non-empty directory without -r or -rf returns exit code 1 and
\* leaves the tree as it was; with -r or -rf, on a directory that is neither
\* readOnly nor the root, it returns exit code 0 and neither the directory nor
\* any of its descendants is in the node mapping afterwards
NonRecursiveRmRefusal == [][RmRefused /\ RmRecursive]_vars

\* rm /data was refused, rm -r /data then removed /data, /data/logs and
\* /data/logs/system.log
NonRecursiveRmRefusalWitness ==
    /\ last.op = "executeCommand"
    /\ terminal.commandHistory = <<L_rm_data, L_rm_r_data>>
    /\ last.exitCode = 0
    /\ {12, 13, 19} \cap DOMAIN filesystem.nodes = {}
    /\ 1 \in DOMAIN filesystem.nodes

(***************************************************************************)
(* The working directory kept by the shell session.                        *)
(***************************************************************************)
\* the session's workingDirectory is the path of the current directory
SessionMirrors ==
    (IsTree(filesystem) /\ filesystem.currentDirectory \in DOMAIN filesystem.nodes) =>
        terminal.workingDirectory = filesystem.nodes[filesystem.currentDirectory].path

\* the record a command returns holds the path of the current directory at
\* the end of the command
RecordMirrors ==
    (Ran /\ last'.res = "ok"
         /\ filesystem'.currentDirectory \in DOMAIN filesystem'.nodes) =>
        last'.workingDirectory = filesystem'.nodes[filesystem'.currentDirectory].path

\* C25: in every state reached by commands and by direct calls of
\* setCurrentDirectory, hardReset and restoreSnapshot the session's
\* workingDirectory is the path of the tree's current directory, and every
\* returned command record holds the path of the current directory at the
\* end of its command
WorkingDirectoryMirror == []SessionMirrors /\ [][RecordMirrors]_vars

(***************************************************************************)
(* The lines grep prints.                                                  *)
(***************************************************************************)
\* the line holds the pattern's text somewhere, letter case aside
LineMatches(pattern, line) ==
    IndexOfFrom(ToLowerCase(line), ToLowerCase(pattern), 0) # -1

\* the lines of the file that match, each once, in the order of the file
MatchingLines(pattern, content) ==
    SelectSeq(SplitLines(content), LAMBDA line : LineMatches(pattern, line))

\* the step ran grep with a pattern and the name of an existing file
GrepOnFile ==
    /\ Executed(K_grep)
    /\ Len(last'.args) = 2
    /\ readFile(filesystem, last'.args[2]).found

GrepPrintsMatches ==
    (GrepOnFile /\ Compiles(last'.args[1])) =>
        LET expected == MatchingLines(last'.args[1],
                                      readFile(filesystem, last'.args[2]).content)
        IN  /\ last'.output = JoinWith(expected, NEWLINE)
            /\ last'.exitCode = IF expected # <<>> THEN 0 ELSE 1

GrepInvalidPattern ==
    (GrepOnFile /\ ~Compiles(last'.args[1])) => last'.exitCode = 2

\* C26: for a valid pattern and an existing file grep prints exactly the lines
\* that match the pattern without regard to case, each once and in file
\* order, whatever lines precede them, with exit code 0 if a line matches and
\* 1 if none does; an invalid pattern gives exit code 2
GrepLineMatching == [][GrepPrintsMatches /\ GrepInvalidPattern]_vars

(***************************************************************************)
(* The current directory.                                                  *)
(***************************************************************************)
\* C27: in every state reached from the seed tree the current-directory id
\* names a node of the node mapping, and that node is a directory
ValidCurrentDirectory ==
    /\ filesystem.currentDirectory \in DOMAIN filesystem.nodes
    /\ filesystem.nodes[filesystem.currentDirectory].type = "directory"

(***************************************************************************)
(* The shape of the tree.                                                  *)
(***************************************************************************)
RECURSIVE ClimbsToRoot(_, _, _)
\* following parent links from id reaches the root in at most fuel steps
ClimbsToRoot(fs, id, fuel) ==
    IF id = fs.root THEN TRUE
    ELSE IF fuel = 0 \/ id \notin DOMAIN fs.nodes THEN FALSE
    ELSE ClimbsToRoot(fs, fs.nodes[id].parent, fuel - 1)

\* no node is its own ancestor: every parent chain ends at the root
ParentLinksReachRoot ==
    \A id \in DOMAIN filesystem.nodes :
        ClimbsToRoot(filesystem, id, Cardinality(DOMAIN filesystem.nodes))

\* every node is reached from the root through children lists
AllReachableFromRoot ==
    Subtree(filesystem.nodes, filesystem.root) = DOMAIN filesystem.nodes

\* moveNode does not succeed when the destination is the source or one of
\* its descendants
MoveIntoItselfRejected ==
    Called("moveNode", "ok") =>
        last'.dest \notin Subtree(filesystem.nodes, last'.node)

\* C28: after any sequence of operations the parent links of every node lead
\* to the root, every node is reachable from the root through children lists,
\* and moveNode is rejected when the destination is the source node or one of
\* its descendants
TreeShapePreserved ==
    /\ [](ParentLinksReachRoot /\ AllReachableFromRoot)
    /\ [][MoveIntoItselfRejected]_vars

(***************************************************************************)
(* The range of the history cursor.                                        *)
(***************************************************************************)
\* the cursor is -1 or an index of the command history
CursorInRange ==
    \/ terminal.historyIndex = -1
    \/ terminal.historyIndex \in 0..(Len(terminal.commandHistory) - 1)

\* with an empty command history no entry is selected
EmptyHistoryNoCursor ==
    terminal.commandHistory = <<>> => terminal.historyIndex = -1

\* executeCommand leaves no entry selected
ExecuteClearsCursor ==
    (Ran /\ last'.res = "ok") => terminal'.historyIndex = -1

\* C29: in every state of the shell session the history cursor is -1 or an
\* index below the length of the command history; it is -1 right after every
\* executeCommand and whenever the command history is empty
HistoryCursorRange ==
    /\ [](CursorInRange /\ EmptyHistoryNoCursor)
    /\ [][ExecuteClearsCursor]_vars

(***************************************************************************)
(* Integrity reports of rm and the deletions they belong to.               *)
(***************************************************************************)
\* the deleteNode call that follows the report at position i names a node
\* that is protected and that the step has removed
ReportJustified(i) ==
    /\ i + 1 \in DOMAIN last'.events
    /\ last'.events[i + 1].call = "deleteNode"
    /\ LET id == last'.events[i + 1].node
       IN  /\ id \in DOMAIN filesystem.nodes
           /\ ProtectedPath(filesystem.nodes[id].path)
           /\ id \notin DOMAIN filesystem'.nodes

ReportsOnlyRealDeletions ==
    Executed(K_rm) =>
        \A i \in DOMAIN last'.events :
            last'.events[i].call = "updateIntegrity" => ReportJustified(i)

\* C30: rm reports to the integrity reporter for a target only if the target
\* lies at or below /system or is /home/user, a sibling such as /system2 not
\* being one, and only if that target is then removed from the tree
IntegrityDamageOnlyForRealDeletions == [][ReportsOnlyRealDeletions]_vars

====
